---- MODULE Spec2Model ----
(***************************************************************************)
(* Folder-based processing state machine of src/pipeline.py: grouping of   *)
(* inbox PDFs into packages, error counting through the append-only log,   *)
(* merge -> OCR -> JSON/TXT report -> archive/cleanup, quarantine after    *)
(* MAX_ERRORES failures.                                                   *)
(*                                                                         *)
(* A file name is a sequence of one-character strings, e.g. "A-1-1.pdf" is *)
(* <<"A","-","1","-","1",".","p","d","f">>.  A folder is the set of names  *)
(* (or group keys) of the files in it; report folders map a key to the     *)
(* number of the pipeline run that wrote the report (its contents).        *)
(***************************************************************************)
EXTENDS Integers, Sequences, FiniteSets, TLC

(***************************************************************************)
(* Bounds of the model.                                                    *)
(***************************************************************************)
MaxCorridas == 4
MaxReloj == 1
MaxLlegadas == 1

(***************************************************************************)
(* Program constants.                                                      *)
(***************************************************************************)
MAX_ERRORES == 2
MAX_EDAD_TMP == 3600

(***************************************************************************)
(* Characters and strings.                                                 *)
(***************************************************************************)
Digitos == {"0", "1", "2", "3", "4", "5", "6", "7", "8", "9"}

\* int() of one digit character
ValorDigito(c) ==
    CASE c = "0" -> 0 [] c = "1" -> 1 [] c = "2" -> 2 [] c = "3" -> 3
      [] c = "4" -> 4 [] c = "5" -> 5 [] c = "6" -> 6 [] c = "7" -> 7
      [] c = "8" -> 8 [] c = "9" -> 9

\* code-point order of the characters the model's names are made of
Cod(c) ==
    CASE c = " " -> 32 [] c = "(" -> 40 [] c = ")" -> 41 [] c = "-" -> 45
      [] c = "." -> 46 [] c \in Digitos -> 48 + ValorDigito(c)
      [] c = "A" -> 65 [] c = "B" -> 66 [] c = "C" -> 67 [] c = "D" -> 68
      [] c = "E" -> 69 [] c = "F" -> 70 [] c = "G" -> 71 [] c = "I" -> 73
      [] c = "P" -> 80 [] c = "Q" -> 81 [] c = "T" -> 84 [] c = "U" -> 85
      [] c = "V" -> 86 [] c = "X" -> 88 [] c = "_" -> 95
      [] c = "d" -> 100 [] c = "f" -> 102 [] c = "p" -> 112

\* the lower-case letters of the texts and their upper-case forms
Minusculas == <<"a", "b", "c", "d", "e", "f", "g", "h", "i", "j", "k", "l", "m", "n",
                "o", "p", "q", "r", "s", "t", "u", "v", "w", "x", "y", "z",
                "á", "é", "í", "ó", "ú", "ñ">>
Mayusculas == <<"A", "B", "C", "D", "E", "F", "G", "H", "I", "J", "K", "L", "M", "N",
                "O", "P", "Q", "R", "S", "T", "U", "V", "W", "X", "Y", "Z",
                "Á", "É", "Í", "Ó", "Ú", "Ñ">>

MayusDe == [c \in {Minusculas[i] : i \in 1..Len(Minusculas)} |->
               Mayusculas[CHOOSE i \in 1..Len(Minusculas) : Minusculas[i] = c]]

\* str.upper() on one character
Mayus(c) == IF c \in DOMAIN MayusDe THEN MayusDe[c] ELSE c

Upper(s) == [i \in 1..Len(s) |-> Mayus(s[i])]

\* string comparison s < t by code point
RECURSIVE MenorStr(_, _)
MenorStr(s, t) ==
    IF t = <<>> THEN FALSE
    ELSE IF s = <<>> THEN TRUE
    ELSE IF Cod(Head(s)) # Cod(Head(t)) THEN Cod(Head(s)) < Cod(Head(t))
    ELSE MenorStr(Tail(s), Tail(t))

\* `sub in s`
Contiene(s, sub) ==
    \E i \in 1..(Len(s) - Len(sub) + 1) : SubSeq(s, i, i + Len(sub) - 1) = sub

StartsWith(s, pre) == Len(s) >= Len(pre) /\ SubSeq(s, 1, Len(pre)) = pre

\* number of digit characters at the end of s[1..n]
RECURSIVE DigitosFinales(_, _)
DigitosFinales(s, n) ==
    IF n = 0 \/ s[n] \notin Digitos THEN 0 ELSE 1 + DigitosFinales(s, n - 1)

\* int() of a digit string
RECURSIVE ValorNum(_)
ValorNum(s) ==
    IF s = <<>> THEN 0
    ELSE 10 * ValorNum(SubSeq(s, 1, Len(s) - 1)) + ValorDigito(s[Len(s)])

PuntoPdf == <<".", "p", "d", "f">>

(***************************************************************************)
(* The match of r'-(\d+)-\d+\.pdf$' (re.IGNORECASE) against a name: the    *)
(* record [ok, ini, x], ini the index of the first "-" of the match and x  *)
(* the digits of group 1.                                                  *)
(***************************************************************************)
PatronPagina(nombre) ==
    LET n  == Len(nombre)
        e  == n - 4
        dy == IF n >= 4 THEN DigitosFinales(nombre, e) ELSE 0
        g2 == e - dy
        dx == IF dy > 0 /\ g2 >= 1 /\ nombre[g2] = "-"
                 THEN DigitosFinales(nombre, g2 - 1) ELSE 0
        g1 == g2 - 1 - dx
    IN  IF /\ n >= 4
           /\ Upper(SubSeq(nombre, n - 3, n)) = Upper(PuntoPdf)
           /\ dy > 0 /\ dx > 0
           /\ g1 >= 1 /\ nombre[g1] = "-"
        THEN [ok |-> TRUE, ini |-> g1, x |-> SubSeq(nombre, g1 + 1, g2 - 1)]
        ELSE [ok |-> FALSE, ini |-> 0, x |-> <<>>]

\* os.path.splitext(nombre)[0]: cut at the last dot that follows a non-dot
RECURSIVE UltimoPunto(_, _)
UltimoPunto(s, n) ==
    IF n = 0 THEN 0 ELSE IF s[n] = "." THEN n ELSE UltimoPunto(s, n - 1)

SplitextRaiz(s) ==
    LET p == UltimoPunto(s, Len(s))
    IN  IF p > 1 /\ \E i \in 1..(p - 1) : s[i] # "."
        THEN SubSeq(s, 1, p - 1) ELSE s

\* [^\w\-] : neither a word character nor a hyphen
NoPalabra(c) == c \in {" ", "(", ")", "."}

\* re.sub(r'_+', '_', s)
RECURSIVE Colapsar(_)
Colapsar(s) ==
    IF Len(s) <= 1 THEN s
    ELSE IF s[1] = "_" /\ s[2] = "_" THEN Colapsar(Tail(s))
    ELSE <<s[1]>> \o Colapsar(Tail(s))

\* s.strip('_')
RECURSIVE Strip(_)
Strip(s) ==
    IF s = <<>> THEN s
    ELSE IF Head(s) = "_" THEN Strip(Tail(s))
    ELSE IF s[Len(s)] = "_" THEN Strip(SubSeq(s, 1, Len(s) - 1))
    ELSE s

sanitizar_nombre(nombre_pdf) ==
    LET raiz == SplitextRaiz(nombre_pdf)
        sub  == [i \in 1..Len(raiz) |-> IF NoPalabra(raiz[i]) THEN "_" ELSE raiz[i]]
    IN  Strip(Colapsar(sub))

extraer_numero_pagina(ruta_pdf) ==
    LET m == PatronPagina(ruta_pdf)
    IN  IF m.ok THEN ValorNum(m.x) ELSE 0


(***************************************************************************)
(* extraer_orden_documento: the sort key (order, NOMBRE) of a file of a    *)
(* package without page numbers.                                           *)
(***************************************************************************)
\* re.search(r'DIV\s*\((\d+)\)', nombre): the digits of the leftmost match, or <<>>
RECURSIVE Espacios(_, _)
Espacios(s, i) ==
    IF i <= Len(s) /\ s[i] = " " THEN 1 + Espacios(s, i + 1) ELSE 0

RECURSIVE DigitosDesde(_, _)
DigitosDesde(s, i) ==
    IF i <= Len(s) /\ s[i] \in Digitos THEN 1 + DigitosDesde(s, i + 1) ELSE 0

DivEn(s, i) ==
    LET j == i + 3 + Espacios(s, i + 3)
        d == DigitosDesde(s, j + 1)
    IN  IF /\ i + 2 <= Len(s)
           /\ SubSeq(s, i, i + 2) = <<"D", "I", "V">>
           /\ j <= Len(s) /\ s[j] = "("
           /\ d > 0
           /\ j + d + 1 <= Len(s) /\ s[j + d + 1] = ")"
        THEN SubSeq(s, j + 1, j + d) ELSE <<>>

DivNumero(s) ==
    LET hits == {i \in 1..Len(s) : DivEn(s, i) # <<>>}
    IN  IF hits = {} THEN <<>>
        ELSE DivEn(s, CHOOSE i \in hits : \A k \in hits : i <= k)

extraer_orden_documento(ruta_pdf) ==
    LET nombre == Upper(ruta_pdf)
        orden ==
          IF \/ Contiene(nombre, <<"C", "V">>)
             \/ Contiene(nombre, <<"C", "A", "R", "T", "A">>)
             \/ Contiene(nombre, <<"C", "O", "T", "I", "Z", "A", "C", "I", "O", "N">>)
            THEN 1
          ELSE IF \/ Contiene(nombre, <<"E", "T">>)
                  \/ Contiene(nombre, <<"E", "S", "T", "U", "D", "I", "O">>)
            THEN 2
          ELSE IF \/ Contiene(nombre, <<"P", "A", "G", "E">>)
                  \/ Contiene(nombre, <<"P", "A", "G">>)
                  \/ Contiene(nombre, <<"C", "O", "N", "T", "I", "N", "U", "A", "C", "I", "O", "N">>)
            THEN 3
          ELSE IF Contiene(nombre, <<"D", "I", "V">>)
            THEN IF DivNumero(nombre) # <<>> THEN 4 + ValorNum(DivNumero(nombre)) ELSE 4
          ELSE 10
    IN  [orden |-> orden, nombre |-> nombre]

\* tuple comparison of two such keys
MenorOrden(a, b) ==
    \/ a.orden < b.orden
    \/ a.orden = b.orden /\ MenorStr(a.nombre, b.nombre)

MenorPagina(a, b) == extraer_numero_pagina(a) < extraer_numero_pagina(b)
MenorDocumento(a, b) == MenorOrden(extraer_orden_documento(a), extraer_orden_documento(b))

(***************************************************************************)
(* list.sort(key=...): stable insertion; por is "documento" or "pagina".   *)
(***************************************************************************)
Menor(por, a, b) == IF por = "documento" THEN MenorDocumento(a, b) ELSE MenorPagina(a, b)

RECURSIVE Insertar(_, _, _)
Insertar(x, s, por) ==
    IF s = <<>> THEN <<x>>
    ELSE IF Menor(por, x, Head(s)) THEN <<x>> \o s
    ELSE <<Head(s)>> \o Insertar(x, Tail(s), por)

RECURSIVE Ordenar(_, _)
Ordenar(s, por) ==
    IF s = <<>> THEN <<>>
    ELSE Insertar(s[Len(s)], Ordenar(SubSeq(s, 1, Len(s) - 1), por), por)

\* sorted(glob(patron)): the files of a folder in string order
RECURSIVE Listar(_)
Listar(S) ==
    IF S = {} THEN <<>>
    ELSE LET m == CHOOSE x \in S : \A y \in S \ {x} : MenorStr(x, y)
         IN  <<m>> \o Listar(S \ {m})

(***************************************************************************)
(* agrupar_pdfs_por_base: the groups as a sequence of [clave, lista] in    *)
(* the insertion order of the dict.  marca is the string strftime gives    *)
(* for the current second.                                                 *)
(***************************************************************************)
Prefijo == <<"P", "A", "Q", "U", "E", "T", "E", "_">>

ClaveDe(pdf) == sanitizar_nombre(SubSeq(pdf, 1, PatronPagina(pdf).ini - 1))

\* grupos.setdefault(clave, []).append(pdf)
Anexar(grupos, clave, pdf) ==
    IF \E i \in 1..Len(grupos) : grupos[i].clave = clave
    THEN [i \in 1..Len(grupos) |->
            IF grupos[i].clave = clave
            THEN [grupos[i] EXCEPT !.lista = Append(@, pdf)] ELSE grupos[i]]
    ELSE Append(grupos, [clave |-> clave, lista |-> <<pdf>>])

\* grupos[clave] = lista
Asignar(grupos, clave, lista) ==
    IF \E i \in 1..Len(grupos) : grupos[i].clave = clave
    THEN [i \in 1..Len(grupos) |->
            IF grupos[i].clave = clave
            THEN [grupos[i] EXCEPT !.lista = lista] ELSE grupos[i]]
    ELSE Append(grupos, [clave |-> clave, lista |-> lista])

RECURSIVE ConPatron(_)
ConPatron(lista_pdfs) ==
    IF lista_pdfs = <<>> THEN <<>>
    ELSE LET pdf == lista_pdfs[Len(lista_pdfs)]
             ant == ConPatron(SubSeq(lista_pdfs, 1, Len(lista_pdfs) - 1))
         IN  IF PatronPagina(pdf).ok THEN Anexar(ant, ClaveDe(pdf), pdf) ELSE ant

SinPatron(lista_pdfs) == SelectSeq(lista_pdfs, LAMBDA pdf : ~PatronPagina(pdf).ok)

ClavePaquete(marca) == Prefijo \o marca

agrupar_pdfs_por_base(lista_pdfs, marca) ==
    LET con == ConPatron(lista_pdfs)
        sin == SinPatron(lista_pdfs)
        grupos == IF sin # <<>> THEN Asignar(con, ClavePaquete(marca), sin) ELSE con
    IN  [i \in 1..Len(grupos) |->
            [grupos[i] EXCEPT !.lista =
                IF StartsWith(grupos[i].clave, Prefijo)
                THEN Ordenar(@, "documento")
                ELSE Ordenar(@, "pagina")]]


(***************************************************************************)
(* The files that can be dropped into the inbox: two pages of package A    *)
(* and one file without the -X-Y.pdf suffix.                               *)
(***************************************************************************)
A1 == <<"A", "-", "1", "-", "1", ".", "p", "d", "f">>
A2 == <<"A", "-", "2", "-", "2", ".", "p", "d", "f">>
CV == <<"C", "V", ".", "p", "d", "f">>
Archivos == {A1, A2, CV}

(***************************************************************************)
(* The clock.  reloj counts instants; Segundos gives an instant's time in  *)
(* seconds (consecutive instants are alternately one second and more than  *)
(* MAX_EDAD_TMP seconds apart) and Marca the string                        *)
(* datetime.now().strftime("%Y%m%d%H%M%S") gives at it, which differs      *)
(* between any two instants.                                               *)
(***************************************************************************)
Segundos(i) == (i \div 2) * (MAX_EDAD_TMP + 2) + (i % 2)

Marca(i) ==
    CASE i = 0 -> <<"0">> [] i = 1 -> <<"1">> [] i = 2 -> <<"2">> [] i = 3 -> <<"3">>
      [] i = 4 -> <<"4">> [] i = 5 -> <<"5">> [] i = 6 -> <<"6">> [] i = 7 -> <<"7">>
      [] i = 8 -> <<"8">> [] i = 9 -> <<"9">>

VARIABLES
    inbox,        \* BotPITA/Inbox: names of the PDFs in it
    errorDir,     \* BotPITA/Error: names of the quarantined PDFs
    merged,       \* BotPITA/Processing_OCR: keys k with k_merged.pdf
    ocrpdf,       \* BotPITA/Processing_OCR: keys k with k_OCR.pdf
    historial,    \* BotPITA/Historial_OCR: keys k with k.pdf
    jsonf,        \* BotPITA/Done_JSON: key -> run that wrote k.json
    txtf,         \* BotPITA/Processing_TXT: key -> run that wrote k.txt
    tmpjson,      \* BotPITA/Done_JSON: key -> instant k.json.tmp was written
    tmptxt,       \* BotPITA/Processing_TXT: key -> instant k.txt.tmp was written
    log,          \* lines of estado_procesamiento.csv; <<>> when the file is absent
    reloj,        \* the current instant
    corrida,      \* number of pipeline runs started
    pc,           \* position of the running ejecutar_pipeline, "idle" between runs
    pendientes,   \* groups of this run still to be processed, the current one first
    nGrupos,      \* len(grupos) of this run
    resultados,   \* the outcome counters of this run
    clave,        \* nombre_grupo of the group being processed
    lista,        \* lista_pdfs of the group being processed
    resultado,    \* value returned by procesar_grupo
    fallo,        \* history: the step of the current attempt that raised, "-" if none
    fallidos,     \* history: file -> number of failed attempts it was part of
    llegadas,     \* history: number of files dropped into the inbox so far
    repetida,     \* history: this run follows another with no file dropped in between
    nuevos,       \* history: a file was dropped since the last run started
    previo,       \* history: folders and log when procesar_grupo was called
    cuarentena,   \* history: files quarantined and not dropped again since
    completos,    \* history: files of a package that returned OK, not dropped again since
    fase,         \* position of a call into verificar_prestamos_v3 / agrupar, "-" when none
    documentos,   \* documentos given to validar_consistencia / returned by procesar_paquete
    validaciones, \* validaciones returned by validar_consistencia
    alertas,      \* alertas returned by validar_consistencia
    reporte,      \* reporte returned by generar_reporte
    texto,        \* page text given to detectar_tipo_documento
    tipo,         \* value returned by detectar_tipo_documento
    doc,          \* page texts of the PDF opened by procesar_paquete
    texto_continuaciones_estudio,  \* the module global _texto_continuaciones_estudio
    referencia,   \* history: a package and what procesar_paquete first returned for it
    listado,      \* list of PDFs given to agrupar_pdfs_por_base
    timestamp,    \* datetime.now().strftime(...) during that call
    agrupado,     \* grupos returned by agrupar_pdfs_por_base
    page,         \* the page given to detectar_firma: None, or what the visual analyses find on it
    OPENCV_DISPONIBLE,  \* whether cv2 was imported
    firma_detectada  \* value returned by detectar_firma

carpetas == <<inbox, errorDir, merged, ocrpdf, historial, jsonf, txtf, tmpjson, tmptxt>>
control == <<pc, pendientes, nGrupos, resultados, clave, lista, resultado>>
historia == <<fallo, fallidos, llegadas, repetida, nuevos, previo, cuarentena, completos>>
pipeline == <<carpetas, log, reloj, corrida, control, historia>>
verificador == <<fase, documentos, validaciones, alertas, reporte, texto, tipo, doc,
                 texto_continuaciones_estudio, referencia, listado, timestamp, agrupado,
                 page, OPENCV_DISPONIBLE, firma_detectada>>
vars == <<pipeline, verificador>>

Vacio == [k \in {} |-> 0]
Conjunto(s) == {s[i] : i \in 1..Len(s)}
Quitar(f, k) == [x \in DOMAIN f \ {k} |-> f[x]]
Poner(f, k, v) == (k :> v) @@ f

\* the folders and the log as they are now
Foto == [inbox |-> inbox, errorDir |-> errorDir, merged |-> merged, ocrpdf |-> ocrpdf,
         historial |-> historial, jsonf |-> jsonf, txtf |-> txtf, tmpjson |-> tmpjson,
         tmptxt |-> tmptxt, log |-> log]

SinPrevio == [foto |-> <<>>, completos |-> {}]

Cabecera == [archivo |-> <<"a", "r", "c", "h", "i", "v", "o">>,
             etapa |-> "etapa", resultado |-> "resultado"]

InitPipeline ==
    /\ inbox = Archivos
    /\ errorDir = {} /\ merged = {} /\ ocrpdf = {} /\ historial = {}
    /\ jsonf = Vacio /\ txtf = Vacio /\ tmpjson = Vacio /\ tmptxt = Vacio
    /\ log = <<>>
    /\ reloj = 0 /\ corrida = 0
    /\ pc = "idle" /\ pendientes = <<>> /\ nGrupos = 0
    /\ resultados = [OK |-> 0, ERROR |-> 0, IGNORADO |-> 0, LIMITE_ERRORES |-> 0]
    /\ clave = <<>> /\ lista = <<>> /\ resultado = "-"
    /\ fallo = "-"
    /\ fallidos = [f \in Archivos |-> 0]
    /\ llegadas = 0 /\ repetida = FALSE /\ nuevos = FALSE
    /\ previo = SinPrevio
    /\ cuarentena = {} /\ completos = {}

\* no call into the extractor is in progress
Nada == "-"
SinValidar == documentos = Nada /\ validaciones = Nada /\ alertas = Nada /\ reporte = Nada
SinDetectar == texto = Nada /\ tipo = Nada
SinPaquete == doc = Nada /\ texto_continuaciones_estudio = <<>> /\ referencia = Nada
SinAgrupar == listado = Nada /\ timestamp = Nada /\ agrupado = Nada
SinFirma == page = Nada /\ OPENCV_DISPONIBLE = Nada /\ firma_detectada = Nada

InitVerificador ==
    fase = Nada /\ SinValidar /\ SinDetectar /\ SinPaquete /\ SinAgrupar /\ SinFirma

Init == InitPipeline /\ InitVerificador


(***************************************************************************)
(* The log.                                                                *)
(***************************************************************************)
\* inicializar_log opening the file with "w" whether or not it exists
inicializar_log_trunca(l) == <<Cabecera>>

\* the file after inicializar_log()
inicializar_log(l) == IF l = <<>> THEN <<Cabecera>> ELSE l

\* the file after escribir_log(archivo, etapa, resultado, ...)
escribir_log(l, archivo, etapa, res) ==
    Append(l, [archivo |-> archivo, etapa |-> etapa, resultado |-> res])

contar_errores(l, archivo) ==
    Cardinality({i \in 1..Len(l) : l[i].archivo = archivo /\ l[i].resultado = "ERROR"})

\* the .tmp files of Done_JSON left by limpiar_tmp_huerfanos() at instant ahora
limpiar_tmp_huerfanos(tmp, ahora) ==
    [k \in {x \in DOMAIN tmp : ~(Segundos(ahora) - Segundos(tmp[x]) > MAX_EDAD_TMP)} |-> tmp[k]]

(***************************************************************************)
(* The environment: a file is dropped into the inbox between two runs, and *)
(* time passes.                                                            *)
(***************************************************************************)
Llegada(f) ==
    /\ UNCHANGED verificador
    /\ pc = "idle" /\ llegadas < MaxLlegadas
    /\ f \notin inbox
    /\ inbox' = inbox \cup {f}
    /\ llegadas' = llegadas + 1
    /\ nuevos' = TRUE
    /\ cuarentena' = cuarentena \ {f}
    /\ completos' = completos \ {f}
    /\ UNCHANGED <<errorDir, merged, ocrpdf, historial, jsonf, txtf, tmpjson, tmptxt,
                   log, reloj, corrida, control, fallo, fallidos, repetida, previo>>

Tick ==
    /\ UNCHANGED verificador
    /\ pc = "idle" /\ reloj < MaxReloj
    /\ reloj' = reloj + 1
    /\ UNCHANGED <<carpetas, log, corrida, control, historia>>

(***************************************************************************)
(* ejecutar_pipeline, up to the loop over the groups.                      *)
(***************************************************************************)
Iniciar ==
    /\ UNCHANGED verificador
    /\ pc = "idle" /\ corrida < MaxCorridas
    /\ corrida' = corrida + 1
    /\ log' = inicializar_log(log)
    /\ tmpjson' = limpiar_tmp_huerfanos(tmpjson, reloj)
    /\ LET pdfs == Listar(inbox)
           grupos == agrupar_pdfs_por_base(pdfs, Marca(reloj))
       IN  IF pdfs = <<>>
           THEN UNCHANGED <<pc, pendientes, nGrupos, resultados, repetida>>
           ELSE /\ pc' = "bucle"
                /\ repetida' = (corrida >= 1 /\ ~nuevos)
                /\ pendientes' = grupos
                /\ nGrupos' = Len(grupos)
                /\ resultados' = [OK |-> 0, ERROR |-> 0, IGNORADO |-> 0, LIMITE_ERRORES |-> 0]
    /\ nuevos' = FALSE
    /\ UNCHANGED <<inbox, errorDir, merged, ocrpdf, historial, jsonf, txtf, tmptxt,
                   reloj, clave, lista, resultado, fallo, fallidos, llegadas, previo,
                   cuarentena, completos>>

\* for nombre_grupo, lista_pdfs in grupos.items(): the call of procesar_grupo
Siguiente ==
    /\ UNCHANGED verificador
    /\ pc = "bucle" /\ pendientes # <<>>
    /\ clave' = Head(pendientes).clave
    /\ lista' = Head(pendientes).lista
    /\ resultado' = "-"
    /\ fallo' = "-"
    /\ previo' = [foto |-> Foto, completos |-> completos]
    /\ pc' = "pg_inicio"
    /\ UNCHANGED <<carpetas, log, reloj, corrida, pendientes, nGrupos, resultados,
                   fallidos, llegadas, repetida, nuevos, cuarentena, completos>>

\* a loop that stops at the first group that returns "ERROR"
Retorno_aborta ==
    /\ UNCHANGED verificador
    /\ pc = "retorno"
    /\ resultados' = [resultados EXCEPT ![resultado] = @ + 1]
    /\ pendientes' = IF resultado = "ERROR" THEN <<>> ELSE Tail(pendientes)
    /\ pc' = "bucle"
    /\ UNCHANGED <<carpetas, log, reloj, corrida, nGrupos, clave, lista, resultado, historia>>

\* resultados[resultado] = resultados.get(resultado, 0) + 1
Retorno ==
    /\ UNCHANGED verificador
    /\ pc = "retorno"
    /\ resultados' = [resultados EXCEPT ![resultado] = @ + 1]
    /\ pendientes' = Tail(pendientes)
    /\ pc' = "bucle"
    /\ UNCHANGED <<carpetas, log, reloj, corrida, nGrupos, clave, lista, resultado, historia>>

\* the summary; ejecutar_pipeline returns and its locals are gone
Resumen ==
    /\ UNCHANGED verificador
    /\ pc = "bucle" /\ pendientes = <<>>
    /\ pc' = "idle"
    /\ nGrupos' = 0
    /\ resultados' = [OK |-> 0, ERROR |-> 0, IGNORADO |-> 0, LIMITE_ERRORES |-> 0]
    /\ clave' = <<>> /\ lista' = <<>> /\ resultado' = "-"
    /\ fallo' = "-"
    /\ repetida' = FALSE
    /\ previo' = SinPrevio
    /\ UNCHANGED <<carpetas, log, reloj, corrida, pendientes,
                   fallidos, llegadas, nuevos, cuarentena, completos>>


(***************************************************************************)
(* procesar_grupo.  Each step that calls a collaborator or writes a file   *)
(* either succeeds or raises; a write that raises may leave a partial      *)
(* file.  Deleting a file the pipeline itself wrote succeeds; deleting an  *)
(* inbox file may fail (the [ERR] branch of the cleanup loop).             *)
(***************************************************************************)
\* the head of procesar_grupo without the check of the existing JSON
decision_sin_json(existe_json, errores) ==
    IF errores >= MAX_ERRORES THEN "LIMITE_ERRORES" ELSE "INTENTAR"

\* the head of procesar_grupo comparing errores > MAX_ERRORES
decision_mayor(existe_json, errores) ==
    IF existe_json THEN "IGNORADO"
    ELSE IF errores > MAX_ERRORES THEN "LIMITE_ERRORES"
    ELSE "INTENTAR"

\* the head of procesar_grupo checking the limit of errors before the existing JSON
decision_limite_primero(existe_json, errores) ==
    IF errores >= MAX_ERRORES THEN "LIMITE_ERRORES"
    ELSE IF existe_json THEN "IGNORADO"
    ELSE "INTENTAR"

\* which of the three branches the head of procesar_grupo takes
decision(existe_json, errores) ==
    IF existe_json THEN "IGNORADO"
    ELSE IF errores >= MAX_ERRORES THEN "LIMITE_ERRORES"
    ELSE "INTENTAR"

\* mover_archivo copying instead of moving
mover_archivo_copia(entrada, error, pdfs) ==
    [entrada |-> entrada, error |-> error \cup (pdfs \cap entrada)]

\* mover_archivo(pdf, ruta_error) for every pdf of the list:
\* the inbox and the error folder afterwards
mover_archivo(entrada, error, pdfs) ==
    [entrada |-> entrada \ pdfs, error |-> error \cup (pdfs \cap entrada)]

ProcesarGrupoInicio ==
    /\ UNCHANGED verificador
    /\ pc = "pg_inicio"
    /\ LET errores == contar_errores(log, clave)
           d == decision(clave \in DOMAIN jsonf, errores)
           mov == mover_archivo(inbox, errorDir, Conjunto(lista))
       IN  CASE d = "IGNORADO" ->
                  /\ resultado' = "IGNORADO"
                  /\ pc' = "retorno"
                  /\ UNCHANGED <<inbox, errorDir, log, cuarentena>>
             [] d = "LIMITE_ERRORES" ->
                  /\ inbox' = mov.entrada
                  /\ errorDir' = mov.error
                  /\ log' = escribir_log(log, clave, "MOVIDO_ERROR", "LIMITE")
                  /\ resultado' = "LIMITE_ERRORES"
                  /\ pc' = "retorno"
                  /\ cuarentena' = cuarentena \cup Conjunto(lista)
             [] OTHER ->
                  /\ pc' = "merge"
                  /\ UNCHANGED <<inbox, errorDir, log, resultado, cuarentena>>
    /\ UNCHANGED <<merged, ocrpdf, historial, jsonf, txtf, tmpjson, tmptxt, reloj, corrida,
                   pendientes, nGrupos, resultados, clave, lista,
                   fallo, fallidos, llegadas, repetida, nuevos, previo, completos>>

\* what a step of the attempt leaves alone besides the folders it names
Resto == <<inbox, errorDir, log, reloj, corrida, pendientes, nGrupos, resultados, clave,
           lista, resultado, fallidos, llegadas, repetida, nuevos, previo, cuarentena,
           completos>>

\* Paso 1: shutil.copy2 / merge_pdfs writes k_merged.pdf
Merge ==
    /\ UNCHANGED verificador
    /\ pc = "merge"
    /\ \/ /\ merged' = merged \cup {clave}
          /\ pc' = "ocr"
          /\ UNCHANGED fallo
       \/ /\ \E parcial \in BOOLEAN :
                merged' = IF parcial THEN merged \cup {clave} ELSE merged
          /\ fallo' = "merge"
          /\ pc' = "except"
    /\ UNCHANGED <<ocrpdf, historial, jsonf, txtf, tmpjson, tmptxt>>
    /\ UNCHANGED Resto

\* Paso 2: hacer_ocr writes k_OCR.pdf, or returns False / raises
Ocr ==
    /\ UNCHANGED verificador
    /\ pc = "ocr"
    /\ \/ /\ ocrpdf' = ocrpdf \cup {clave}
          /\ pc' = "gj_reporte"
          /\ UNCHANGED fallo
       \/ /\ \E parcial \in BOOLEAN :
                ocrpdf' = IF parcial THEN ocrpdf \cup {clave} ELSE ocrpdf
          /\ fallo' = "ocr"
          /\ pc' = "except"
    /\ UNCHANGED <<merged, historial, jsonf, txtf, tmpjson, tmptxt>>
    /\ UNCHANGED Resto

(***************************************************************************)
(* generar_json, Paso 3 of procesar_grupo.                                 *)
(***************************************************************************)
\* procesar_paquete, validar_consistencia, generar_reporte
GenerarReporte ==
    /\ UNCHANGED verificador
    /\ pc = "gj_reporte"
    /\ \/ pc' = "gj_tmp_json" /\ UNCHANGED fallo
       \/ pc' = "gj_except" /\ fallo' = "reporte"
    /\ UNCHANGED carpetas
    /\ UNCHANGED Resto

\* json.dump(reporte, f) into k.json.tmp
EscribirTmpJson ==
    /\ UNCHANGED verificador
    /\ pc = "gj_tmp_json"
    /\ \/ /\ tmpjson' = Poner(tmpjson, clave, reloj)
          /\ pc' = "gj_tmp_txt"
          /\ UNCHANGED fallo
       \/ /\ \E parcial \in BOOLEAN :
                tmpjson' = IF parcial THEN Poner(tmpjson, clave, reloj) ELSE tmpjson
          /\ fallo' = "tmp_json"
          /\ pc' = "gj_except"
    /\ UNCHANGED <<inbox, errorDir, merged, ocrpdf, historial, jsonf, txtf, tmptxt>>
    /\ UNCHANGED Resto

\* generar_txt_desde_reporte(reporte, ruta_tmp_txt)
EscribirTmpTxt ==
    /\ UNCHANGED verificador
    /\ pc = "gj_tmp_txt"
    /\ \/ /\ tmptxt' = Poner(tmptxt, clave, reloj)
          /\ pc' = "gj_rename_json"
          /\ UNCHANGED fallo
       \/ /\ \E parcial \in BOOLEAN :
                tmptxt' = IF parcial THEN Poner(tmptxt, clave, reloj) ELSE tmptxt
          /\ fallo' = "tmp_txt"
          /\ pc' = "gj_except"
    /\ UNCHANGED <<inbox, errorDir, merged, ocrpdf, historial, jsonf, txtf, tmpjson>>
    /\ UNCHANGED Resto

\* os.rename(ruta_tmp_json, ruta_json_final)
RenombrarJson ==
    /\ UNCHANGED verificador
    /\ pc = "gj_rename_json"
    /\ \/ /\ jsonf' = Poner(jsonf, clave, corrida)
          /\ tmpjson' = Quitar(tmpjson, clave)
          /\ pc' = "gj_rename_txt"
          /\ UNCHANGED fallo
       \/ /\ fallo' = "rename_json"
          /\ pc' = "gj_except"
          /\ UNCHANGED <<jsonf, tmpjson>>
    /\ UNCHANGED <<inbox, errorDir, merged, ocrpdf, historial, txtf, tmptxt>>
    /\ UNCHANGED Resto

\* os.rename(ruta_tmp_txt, ruta_txt_final); return True
RenombrarTxt ==
    /\ UNCHANGED verificador
    /\ pc = "gj_rename_txt"
    /\ \/ /\ txtf' = Poner(txtf, clave, corrida)
          /\ tmptxt' = Quitar(tmptxt, clave)
          /\ pc' = "historial"
          /\ UNCHANGED fallo
       \/ /\ fallo' = "rename_txt"
          /\ pc' = "gj_except"
          /\ UNCHANGED <<txtf, tmptxt>>
    /\ UNCHANGED <<inbox, errorDir, merged, ocrpdf, historial, jsonf, tmpjson>>
    /\ UNCHANGED Resto

\* an except clause of generar_json that removes nothing
limpiar_tmp_nada(tmp, k) == tmp

\* a .tmp folder after the except clause of generar_json removed the temp file of k
limpiar_tmp(tmp, k) == Quitar(tmp, k)

\* except Exception: remove the temp files, raise
GenerarJsonExcept ==
    /\ UNCHANGED verificador
    /\ pc = "gj_except"
    /\ tmpjson' = limpiar_tmp(tmpjson, clave)
    /\ tmptxt' = limpiar_tmp(tmptxt, clave)
    /\ pc' = "except"
    /\ UNCHANGED <<inbox, errorDir, merged, ocrpdf, historial, jsonf, txtf>>
    /\ UNCHANGED <<Resto, fallo>>


(***************************************************************************)
(* procesar_grupo, Pasos 4 and 5, and its except clause.                   *)
(***************************************************************************)
\* shutil.move(ruta_ocr, ruta_historial)
MoverHistorial ==
    /\ UNCHANGED verificador
    /\ pc = "historial"
    /\ \/ /\ ocrpdf' = ocrpdf \ {clave}
          /\ historial' = historial \cup {clave}
          /\ pc' = "limpieza"
          /\ UNCHANGED fallo
       \/ /\ fallo' = "historial"
          /\ pc' = "except"
          /\ UNCHANGED <<ocrpdf, historial>>
    /\ UNCHANGED <<merged, jsonf, txtf, tmpjson, tmptxt>>
    /\ UNCHANGED Resto

\* os.remove of every inbox file (quedan: those whose removal failed), of the
\* merged file, and the OK line of the log; return "OK"
Limpieza ==
    /\ UNCHANGED verificador
    /\ pc = "limpieza"
    /\ \E quedan \in SUBSET (Conjunto(lista) \cap inbox) :
          inbox' = inbox \ (Conjunto(lista) \ quedan)
    /\ merged' = merged \ {clave}
    /\ log' = escribir_log(log, clave, "COMPLETO", "OK")
    /\ resultado' = "OK"
    /\ pc' = "retorno"
    /\ completos' = completos \cup Conjunto(lista)
    /\ UNCHANGED <<errorDir, ocrpdf, historial, jsonf, txtf, tmpjson, tmptxt>>
    /\ UNCHANGED <<reloj, corrida, pendientes, nGrupos, resultados, clave, lista,
                   fallo, fallidos, llegadas, repetida, nuevos, previo, cuarentena>>

\* an except clause of procesar_grupo that writes no log line
Except_sin_log ==
    /\ UNCHANGED verificador
    /\ pc = "except"
    /\ merged' = merged \ {clave}
    /\ resultado' = "ERROR"
    /\ pc' = "retorno"
    /\ fallidos' = [f \in Archivos |->
                      IF f \in Conjunto(lista) THEN fallidos[f] + 1 ELSE fallidos[f]]
    /\ UNCHANGED <<inbox, errorDir, ocrpdf, historial, jsonf, txtf, tmpjson, tmptxt, log>>
    /\ UNCHANGED <<reloj, corrida, pendientes, nGrupos, resultados, clave, lista,
                   fallo, llegadas, repetida, nuevos, previo, cuarentena, completos>>

\* except Exception: the ERROR line of the log, removal of the merged file; return "ERROR"
Except ==
    /\ UNCHANGED verificador
    /\ pc = "except"
    /\ log' = escribir_log(log, clave, "ERROR", "ERROR")
    /\ merged' = merged \ {clave}
    /\ resultado' = "ERROR"
    /\ pc' = "retorno"
    /\ fallidos' = [f \in Archivos |->
                      IF f \in Conjunto(lista) THEN fallidos[f] + 1 ELSE fallidos[f]]
    /\ UNCHANGED <<inbox, errorDir, ocrpdf, historial, jsonf, txtf, tmpjson, tmptxt>>
    /\ UNCHANGED <<reloj, corrida, pendientes, nGrupos, resultados, clave, lista,
                   fallo, llegadas, repetida, nuevos, previo, cuarentena, completos>>

Next ==
    \/ \E f \in Archivos : Llegada(f)
    \/ Tick
    \/ Iniciar
    \/ Siguiente
    \/ ProcesarGrupoInicio
    \/ Merge
    \/ Ocr
    \/ GenerarReporte
    \/ EscribirTmpJson
    \/ EscribirTmpTxt
    \/ RenombrarJson
    \/ RenombrarTxt
    \/ GenerarJsonExcept
    \/ MoverHistorial
    \/ Limpieza
    \/ Except
    \/ Retorno
    \/ Resumen

Spec == Init /\ [][Next]_vars


(***************************************************************************)
(* Properties.                                                             *)
(***************************************************************************)
\* number of ERROR lines of archivo in the log l
NumErrores(l, archivo) ==
    Cardinality({i \in 1..Len(l) : l[i].archivo = archivo /\ l[i].resultado = "ERROR"})

EsPrefijo(s, t) == Len(s) <= Len(t) /\ SubSeq(t, 1, Len(s)) = s

LineaError(k) == [archivo |-> k, etapa |-> "ERROR", resultado |-> "ERROR"]
LineaLimite(k) == [archivo |-> k, etapa |-> "MOVIDO_ERROR", resultado |-> "LIMITE"]

\* the positions of procesar_grupo inside an attempt (merge, OCR, generar_json, archive)
Etapas == {"merge", "ocr", "gj_reporte", "gj_tmp_json", "gj_tmp_txt", "gj_rename_json",
           "gj_rename_txt", "gj_except", "historial", "limpieza", "except"}

\* the steps of generar_json that can raise
FallosGenerar == {"reporte", "tmp_json", "tmp_txt", "rename_json", "rename_txt"}

\* C1: when procesar_grupo is called for a key whose final JSON exists, it returns
\* IGNORADO and neither the folders (reports included) nor the log have changed:
\* no stage ran, no log line was appended, no report was rewritten.
C1_Ignorado ==
    (pc = "retorno" /\ clave \in DOMAIN previo.foto.jsonf)
        => (resultado = "IGNORADO" /\ Foto = previo.foto)

C1_Visto == pc = "retorno" /\ resultado = "IGNORADO" /\ clave \in DOMAIN previo.foto.jsonf

\* C2: in a run that follows another with no file dropped in between, no package
\* returns OK (stated for the packages an earlier run already completed with OK:
\* none of them returns OK again), and every report that existed when a group
\* was taken up is still there, unchanged, when the group returns.
C2_Idempotencia ==
    (repetida /\ pc = "retorno")
        => /\ resultado = "OK" => Conjunto(lista) \cap previo.completos = {}
           /\ \A k \in DOMAIN previo.foto.jsonf :
                 k \in DOMAIN jsonf /\ jsonf[k] = previo.foto.jsonf[k]
           /\ \A k \in DOMAIN previo.foto.txtf :
                 k \in DOMAIN txtf /\ txtf[k] = previo.foto.txtf[k]

C4_Tope ==
    \A f \in Archivos :
        (pc = "merge" /\ f \in Conjunto(lista)) => fallidos[f] < MAX_ERRORES

\* C5: a quarantined file is in the error folder and not in the inbox, and no
\* attempt of any later group or run has it as a member.
C5_Cuarentena ==
    /\ \A f \in cuarentena : f \notin inbox /\ f \in errorDir
    /\ pc \in Etapas => Conjunto(lista) \cap cuarentena = {}

\* a later run (the quarantined package was a group of its own run) is in an attempt
C5_Visto ==
    /\ pc = "merge" /\ nGrupos = 1
    /\ cuarentena # {}

\* C6: the renames start only when both temp files are written, and after any
\* failure inside generar_json both temp files are gone and the final JSON and
\* TXT folders are as they were before.
C6_Atomico ==
    /\ pc = "gj_rename_json" => (clave \in DOMAIN tmpjson /\ clave \in DOMAIN tmptxt)
    /\ (pc = "except" /\ fallo \in FallosGenerar)
          => /\ clave \notin DOMAIN tmpjson /\ clave \notin DOMAIN tmptxt
             /\ jsonf = previo.foto.jsonf /\ txtf = previo.foto.txtf

C8_ErrorMergeOcr ==
    (pc = "retorno" /\ fallo \in {"merge", "ocr"})
        => /\ resultado = "ERROR"
           /\ log = Append(previo.foto.log, LineaError(clave))
           /\ inbox = previo.foto.inbox
           /\ Conjunto(lista) \subseteq inbox

C8_Visto == pc = "retorno" /\ fallo = "ocr" /\ Len(lista) = 2

\* C9: during a run every group taken up so far has been counted once under one
\* of the four outcomes and the others are still pending, so at the summary the
\* counters add up to the number of groups, whatever failed.
C9_Lote ==
    pc # "idle"
        => /\ resultados.OK + resultados.ERROR + resultados.IGNORADO
                + resultados.LIMITE_ERRORES + Len(pendientes) = nGrupos
           /\ pc = "retorno" => resultado \in {"OK", "ERROR", "IGNORADO", "LIMITE_ERRORES"}

\* the summary of a run whose first group failed and whose second group was processed
C9_Visto ==
    /\ pc = "bucle" /\ pendientes = <<>> /\ nGrupos = 2
    /\ resultados.ERROR = 1 /\ resultados.OK = 1
    /\ log[Len(log)].resultado = "OK"

\* C10: every step leaves the old log a prefix of the new one, and the number of
\* ERROR lines of a package id never decreases.
C10_SoloAnexar ==
    [][/\ EsPrefijo(log, log')
       /\ \A i \in 1..Len(log) :
             NumErrores(log', log[i].archivo) >= NumErrores(log, log[i].archivo)]_vars

\* a later run found the log of the earlier runs and appended to it
C10_Visto == corrida >= 2 /\ Len(log) >= 4 /\ pc = "retorno"

(***************************************************************************)
(* verificar_prestamos_v3: Python values.  A str is a sequence of          *)
(* one-character strings; None, True and False are one-element sequences   *)
(* holding their name, so that any two values can be compared.             *)
(***************************************************************************)
None == <<"None">>
True == <<"True">>
False == <<"False">>

\* bool(v) of a str, a bool or None
Truthy(v) == v \notin {None, False, <<>>}

\* d.get(k)
Get(d, k) == IF k \in DOMAIN d THEN d[k] ELSE None

Blancos == {" ", "\n", "\t"}

\* str.split(): the maximal runs of non-whitespace characters
RECURSIVE Split(_)
Split(s) ==
    IF s = <<>> THEN <<>>
    ELSE IF Head(s) \in Blancos THEN Split(Tail(s))
    ELSE LET n == CHOOSE k \in 1..Len(s) :
                      /\ \A j \in 1..k : s[j] \notin Blancos
                      /\ (k = Len(s) \/ s[k + 1] \in Blancos)
         IN  <<SubSeq(s, 1, n)>> \o Split(SubSeq(s, n + 1, Len(s)))

(***************************************************************************)
(* validar_consistencia.  An alert is the record of the text of its        *)
(* f-string and of the values the f-string quotes.                         *)
(***************************************************************************)
\* nombres: the (tipo, nombre) pairs collected from CARTA_SOLICITUD and AUTORIZACION_SEGUROS
nombres_de(docs) ==
    LET de(t) == IF t \in DOMAIN docs /\ Truthy(Get(docs[t].datos, "nombre_solicitante"))
                 THEN <<[tipo |-> t, nombre |-> docs[t].datos["nombre_solicitante"]]>>
                 ELSE <<>>
    IN  de("CARTA_SOLICITUD") \o de("AUTORIZACION_SEGUROS")

\* a count that takes every word of nombre1 as common
palabras_comunes_todas(nombre1, nombre2) == Len(nombre1)

\* sum(1 for p in nombre1 if p in nombre2)
palabras_comunes(nombre1, nombre2) ==
    Cardinality({i \in 1..Len(nombre1) : \E j \in 1..Len(nombre2) : nombre2[j] = nombre1[i]})

Max(a, b) == IF a >= b THEN a ELSE b

AlertaNombre(n1, n2) == [texto |-> "Nombre inconsistente", valores |-> <<n1, n2>>]
AlertaSinNombre == [texto |-> "No se encontró nombre del solicitante", valores |-> <<>>]

\* the name validation with the branch for a single name removed
validar_nombre_sin_uno(nombres) ==
    IF Len(nombres) >= 2
    THEN LET nombre1 == Split(Upper(nombres[1].nombre))
             nombre2 == Split(Upper(nombres[2].nombre))
         IN  IF 10 * palabras_comunes(nombre1, nombre2) >= 7 * Max(Len(nombre1), Len(nombre2))
             THEN [valor |-> True, alertas |-> <<>>]
             ELSE [valor |-> False,
                   alertas |-> <<AlertaNombre(nombres[1].nombre, nombres[2].nombre)>>]
    ELSE [valor |-> None, alertas |-> <<AlertaSinNombre>>]

\* "Validar nombre consistente": palabras_comunes >= total_palabras * 0.7
validar_nombre(nombres) ==
    IF Len(nombres) >= 2
    THEN LET nombre1 == Split(Upper(nombres[1].nombre))
             nombre2 == Split(Upper(nombres[2].nombre))
         IN  IF 10 * palabras_comunes(nombre1, nombre2) >= 7 * Max(Len(nombre1), Len(nombre2))
             THEN [valor |-> True, alertas |-> <<>>]
             ELSE [valor |-> False,
                   alertas |-> <<AlertaNombre(nombres[1].nombre, nombres[2].nombre)>>]
    ELSE IF Len(nombres) = 1
    THEN [valor |-> True, alertas |-> <<>>]
    ELSE [valor |-> None, alertas |-> <<AlertaSinNombre>>]

\* numeros: the (tipo, num) pairs of the three types that carry a request number
numeros_de(docs) ==
    LET de(t) == IF t \in DOMAIN docs /\ Truthy(Get(docs[t].datos, "num_solicitud"))
                 THEN <<[tipo |-> t, num |-> docs[t].datos["num_solicitud"]]>>
                 ELSE <<>>
    IN  de("AUTORIZACION_SEGUROS") \o de("DIVULGACIONES_TITULO")
            \o de("DIVULGACIONES_PRODUCTOS")

AlertaNumeros(numeros) == [texto |-> "Números de solicitud inconsistentes", valores |-> numeros]
AlertaSinNumero == [texto |-> "No se encontró número de solicitud", valores |-> <<>>]

\* the number validation comparing only the first two numbers
validar_numero_dos(numeros) ==
    IF Len(numeros) >= 2
    THEN IF numeros[1].num = numeros[2].num
         THEN [valor |-> True, alertas |-> <<>>]
         ELSE [valor |-> False, alertas |-> <<AlertaNumeros(numeros)>>]
    ELSE IF Len(numeros) = 1
    THEN [valor |-> True, alertas |-> <<>>]
    ELSE [valor |-> None, alertas |-> <<AlertaSinNumero>>]

\* "Validar número de solicitud consistente"
validar_numero(numeros) ==
    IF Len(numeros) >= 2
    THEN IF Cardinality({numeros[i].num : i \in 1..Len(numeros)}) = 1
         THEN [valor |-> True, alertas |-> <<>>]
         ELSE [valor |-> False, alertas |-> <<AlertaNumeros(numeros)>>]
    ELSE IF Len(numeros) = 1
    THEN [valor |-> True, alertas |-> <<>>]
    ELSE [valor |-> None, alertas |-> <<AlertaSinNumero>>]

firmas_requeridas == <<"AUTORIZACION_SEGUROS", "DIVULGACIONES_TITULO", "DIVULGACIONES_PRODUCTOS">>

\* a test that takes only presente == False as a missing signature
sin_firma_solo_false(datos) ==
    LET firma == IF "firma" \in DOMAIN datos THEN datos["firma"] ELSE Vacio
    IN  "presente" \in DOMAIN firma /\ firma["presente"] = False

\* not datos.get("firma", {}).get("presente", False)
sin_firma(datos) ==
    LET firma == IF "firma" \in DOMAIN datos THEN datos["firma"] ELSE Vacio
    IN  ~Truthy(IF "presente" \in DOMAIN firma THEN firma["presente"] ELSE False)

\* firmas_faltantes: the required types present in the package without a signature
firmas_faltantes(docs) ==
    LET falta(t) == t \in DOMAIN docs /\ sin_firma(docs[t].datos)
    IN  SelectSeq(firmas_requeridas, falta)

AlertaFirma(t) == [texto |-> "Falta firma en", valores |-> <<t>>]

\* the validation of the signatures appending no alert
validar_firmas_sin_alerta(faltantes) ==
    [valor |-> IF faltantes = <<>> THEN True ELSE False, alertas |-> <<>>]

\* "Validar firmas completas"
validar_firmas(faltantes) ==
    IF faltantes = <<>>
    THEN [valor |-> True, alertas |-> <<>>]
    ELSE [valor |-> False,
          alertas |-> [i \in 1..Len(faltantes) |-> AlertaFirma(faltantes[i])]]

validar_consistencia(docs) ==
    LET n == validar_nombre(nombres_de(docs))
        m == validar_numero(numeros_de(docs))
        f == validar_firmas(firmas_faltantes(docs))
    IN  [validaciones |-> [nombre_consistente |-> n.valor,
                           numero_solicitud_consistente |-> m.valor,
                           firmas_completas |-> f.valor],
         alertas |-> n.alertas \o m.alertas \o f.alertas]

(***************************************************************************)
(* generar_reporte: the verdict (resumen_validacion) and the report.       *)
(***************************************************************************)
resumen_validacion(vals, alers) ==
    IF /\ Truthy(vals.nombre_consistente)
       /\ Truthy(vals.numero_solicitud_consistente)
       /\ Truthy(vals.firmas_completas)
    THEN "APROBADO"
    ELSE IF alers # <<>> THEN "REVISIÓN REQUERIDA"
    ELSE "INCOMPLETO"

generar_reporte(vals, alers) ==
    [resumen_validacion |-> resumen_validacion(vals, alers),
     validaciones |-> vals,
     alertas |-> alers]

(***************************************************************************)
(* The documents validar_consistencia is applied to: every combination of  *)
(* the four types being absent or present with the values below.           *)
(***************************************************************************)
JuanPerezGarcia == <<"J", "U", "A", "N", " ", "P", "E", "R", "E", "Z", " ", "G", "A", "R", "C", "I", "A">>
JuanPerez == <<"J", "U", "A", "N", " ", "P", "E", "R", "E", "Z">>
MariaLopezRuiz == <<"M", "A", "R", "I", "A", " ", "L", "O", "P", "E", "Z", " ", "R", "U", "I", "Z">>
JuanPerezMin == <<"J", "u", "a", "n", " ", " ", "P", "e", "r", "e", "z">>
Nombres == {None, JuanPerezGarcia, JuanPerez, MariaLopezRuiz, JuanPerezMin}

Solicitud1 == <<"2", "0", "2", "6", "0", "0", "0", "0", "0", "1">>
Solicitud2 == <<"2", "0", "2", "6", "0", "0", "0", "0", "0", "2">>
Numeros == {None, Solicitud1, Solicitud2}

Firmas == {("firma" :> [presente |-> x]) : x \in {True, False, None}}

OpcionesCarta ==
    {Vacio} \cup {("CARTA_SOLICITUD" :> [datos |-> [nombre_solicitante |-> n]]) :
                    n \in Nombres}
OpcionesAutorizacion ==
    {Vacio} \cup {("AUTORIZACION_SEGUROS" :>
                      [datos |-> [nombre_solicitante |-> n, num_solicitud |-> m] @@ f]) :
                    n \in Nombres, m \in Numeros, f \in Firmas \cup {Vacio}}
OpcionesDivulgaciones(t) ==
    {Vacio} \cup {(t :> [datos |-> [num_solicitud |-> m] @@ f]) :
                    m \in Numeros, f \in Firmas}
Documentos ==
    {c @@ a @@ dt @@ dp : c \in OpcionesCarta, a \in OpcionesAutorizacion,
                          dt \in OpcionesDivulgaciones("DIVULGACIONES_TITULO"),
                          dp \in OpcionesDivulgaciones("DIVULGACIONES_PRODUCTOS")}

fuera_de_validar == <<texto, tipo, doc, texto_continuaciones_estudio, referencia,
                      listado, timestamp, agrupado, page, OPENCV_DISPONIBLE, firma_detectada>>

InitValidar ==
    /\ InitPipeline
    /\ fase = "documentos"
    /\ documentos \in Documentos
    /\ validaciones = Nada /\ alertas = Nada /\ reporte = Nada
    /\ SinDetectar /\ SinPaquete /\ SinAgrupar /\ SinFirma

\* validaciones, alertas = validar_consistencia(documentos)
ValidarConsistencia ==
    /\ fase = "documentos"
    /\ LET r == validar_consistencia(documentos)
       IN  validaciones' = r.validaciones /\ alertas' = r.alertas
    /\ fase' = "validado"
    /\ UNCHANGED <<pipeline, documentos, reporte, fuera_de_validar>>

\* reporte = generar_reporte(ruta_pdf_ocr, documentos, num_paginas, validaciones, alertas)
Reportar ==
    /\ fase = "validado"
    /\ reporte' = generar_reporte(validaciones, alertas)
    /\ fase' = "reportado"
    /\ UNCHANGED <<pipeline, documentos, validaciones, alertas, fuera_de_validar>>

NextValidar == ValidarConsistencia \/ Reportar

SpecValidar == InitValidar /\ [][NextValidar]_vars

(***************************************************************************)
(* The inputs generar_reporte is applied to on its own: any three          *)
(* validation values and any list of up to MaxAlertas alerts, an alert     *)
(* being tagged critical or not.                                           *)
(***************************************************************************)
MaxAlertas == 2

AlertaCritica == [texto |-> "Falta firma en", valores |-> <<"AUTORIZACION_SEGUROS">>,
                  critica |-> TRUE]
ListasDeAlertas ==
    UNION {[1..n -> {AlertaSinNombre, AlertaCritica}] : n \in 0..MaxAlertas}

InitReporte ==
    /\ InitPipeline
    /\ fase = "validado"
    /\ documentos = Nada
    /\ validaciones \in [{"nombre_consistente", "numero_solicitud_consistente",
                          "firmas_completas"} -> {True, False, None}]
    /\ alertas \in ListasDeAlertas
    /\ reporte = Nada
    /\ SinDetectar /\ SinPaquete /\ SinAgrupar /\ SinFirma

NextReporte == Reportar

SpecReporte == InitReporte /\ [][NextReporte]_vars

(***************************************************************************)
(* Properties of validar_consistencia and generar_reporte.                 *)
(***************************************************************************)
Validado == fase \in {"validado", "reportado"}

\* the value of campo in the datos of document t, None if t or the value is missing
CampoEn(t, campo) ==
    IF t \in DOMAIN documentos /\ campo \in DOMAIN documentos[t].datos
    THEN documentos[t].datos[campo]
    ELSE None

\* number of alerts with the given text
NumAlertas(tx) == Cardinality({i \in 1..Len(alertas) : alertas[i].texto = tx})

\* C11: when CARTA_SOLICITUD and AUTORIZACION_SEGUROS both carry a name,
\* nombre_consistente is True exactly when at least 70% of the upper-cased words of
\* the shorter name appear in the longer one.
C11_Setenta ==
    (/\ Validado
     /\ CampoEn("CARTA_SOLICITUD", "nombre_solicitante") # None
     /\ CampoEn("AUTORIZACION_SEGUROS", "nombre_solicitante") # None)
    => LET a == Split(Upper(CampoEn("CARTA_SOLICITUD", "nombre_solicitante")))
           b == Split(Upper(CampoEn("AUTORIZACION_SEGUROS", "nombre_solicitante")))
           corto == IF Len(a) <= Len(b) THEN a ELSE b
           largo == IF Len(a) <= Len(b) THEN b ELSE a
           hallados == Cardinality({i \in 1..Len(corto) : corto[i] \in Conjunto(largo)})
       IN  (validaciones.nombre_consistente = True) <=> (10 * hallados >= 7 * Len(corto))

\* C12: when the two names share no word, nombre_consistente is False and exactly one
\* name alert is added, which quotes both names as they were given.
C12_SinComun ==
    (/\ Validado
     /\ CampoEn("CARTA_SOLICITUD", "nombre_solicitante") # None
     /\ CampoEn("AUTORIZACION_SEGUROS", "nombre_solicitante") # None
     /\ Conjunto(Split(Upper(CampoEn("CARTA_SOLICITUD", "nombre_solicitante"))))
          \cap Conjunto(Split(Upper(CampoEn("AUTORIZACION_SEGUROS", "nombre_solicitante"))))
          = {})
    => /\ validaciones.nombre_consistente = False
       /\ NumAlertas("Nombre inconsistente") = 1
       /\ NumAlertas("No se encontró nombre del solicitante") = 0
       /\ \A i \in 1..Len(alertas) :
            alertas[i].texto = "Nombre inconsistente"
            => alertas[i].valores = <<CampoEn("CARTA_SOLICITUD", "nombre_solicitante"),
                                      CampoEn("AUTORIZACION_SEGUROS", "nombre_solicitante")>>

C12_Visto ==
    /\ fase = "validado"
    /\ CampoEn("CARTA_SOLICITUD", "nombre_solicitante") = JuanPerezGarcia
    /\ CampoEn("AUTORIZACION_SEGUROS", "nombre_solicitante") = MariaLopezRuiz
    /\ validaciones.nombre_consistente = False

\* the documents, of the two that can carry one, that carry a solicitant name
ConNombre ==
    {t \in {"CARTA_SOLICITUD", "AUTORIZACION_SEGUROS"} :
        CampoEn(t, "nombre_solicitante") # None}

\* C13: with exactly one name, nombre_consistente is True and there is no name alert;
\* with none, nombre_consistente is None and there is exactly one alert, the
\* "name not found" one.
C13_UnoONinguno ==
    Validado =>
       /\ Cardinality(ConNombre) = 1
            => /\ validaciones.nombre_consistente = True
               /\ NumAlertas("Nombre inconsistente") = 0
               /\ NumAlertas("No se encontró nombre del solicitante") = 0
       /\ Cardinality(ConNombre) = 0
            => /\ validaciones.nombre_consistente = None
               /\ NumAlertas("Nombre inconsistente") = 0
               /\ NumAlertas("No se encontró nombre del solicitante") = 1

C13_Visto ==
    /\ fase = "validado"
    /\ ConNombre = {"AUTORIZACION_SEGUROS"}
    /\ "CARTA_SOLICITUD" \in DOMAIN documentos
    /\ validaciones.nombre_consistente = True

\* the distinct request numbers carried by the three types that can carry one
NumerosDados ==
    {CampoEn(t, "num_solicitud") : t \in Conjunto(firmas_requeridas)} \ {None}

\* C14: numero_solicitud_consistente is True iff there is a request number and all
\* are identical, False (with one alert) iff two differ, None (with one alert) iff
\* there is none.
C14_Numero ==
    Validado =>
       /\ (validaciones.numero_solicitud_consistente = True)
            <=> (Cardinality(NumerosDados) = 1)
       /\ (validaciones.numero_solicitud_consistente = False)
            <=> (Cardinality(NumerosDados) >= 2)
       /\ (validaciones.numero_solicitud_consistente = None) <=> (NumerosDados = {})
       /\ NumAlertas("Números de solicitud inconsistentes")
            = (IF Cardinality(NumerosDados) >= 2 THEN 1 ELSE 0)
       /\ NumAlertas("No se encontró número de solicitud")
            = (IF NumerosDados = {} THEN 1 ELSE 0)

C14_Visto ==
    /\ fase = "validado"
    /\ CampoEn("AUTORIZACION_SEGUROS", "num_solicitud") = Solicitud1
    /\ CampoEn("DIVULGACIONES_TITULO", "num_solicitud") = Solicitud1
    /\ CampoEn("DIVULGACIONES_PRODUCTOS", "num_solicitud") = Solicitud2
    /\ validaciones.numero_solicitud_consistente = False

\* presente of the signature of document t, None if the document has none
PresenteEn(t) ==
    IF t \in DOMAIN documentos /\ "firma" \in DOMAIN documentos[t].datos
    THEN documentos[t].datos["firma"].presente
    ELSE None

\* the required types present in the package whose signature is not True
SinFirmar == {t \in Conjunto(firmas_requeridas) : t \in DOMAIN documentos /\ PresenteEn(t) # True}

\* C15: firmas_completas is True iff every required type present in the package has
\* presente True; each present required type whose signature is False, None or
\* missing gets one "Falta firma en <type>" alert and no other type gets one.
C15_Firmas ==
    Validado =>
       /\ (validaciones.firmas_completas = True) <=> (SinFirmar = {})
       /\ (validaciones.firmas_completas = False) <=> (SinFirmar # {})
       /\ NumAlertas("Falta firma en") = Cardinality(SinFirmar)
       /\ \A t \in SinFirmar :
            Cardinality({i \in 1..Len(alertas) :
                           /\ alertas[i].texto = "Falta firma en"
                           /\ alertas[i].valores = <<t>>}) = 1

C15_Visto ==
    /\ fase = "validado"
    /\ PresenteEn("AUTORIZACION_SEGUROS") = None
    /\ "AUTORIZACION_SEGUROS" \in DOMAIN documentos
    /\ PresenteEn("DIVULGACIONES_TITULO") = True
    /\ PresenteEn("DIVULGACIONES_PRODUCTOS") = False
    /\ validaciones.firmas_completas = False
    /\ NumAlertas("Falta firma en") = 2

\* an alert tagged critical (red flag)
EsCritica(a) == "critica" \in DOMAIN a /\ a.critica

\* the four-row decision table, first match wins
Veredicto(vals, alers) ==
    IF /\ vals.nombre_consistente = True
       /\ vals.numero_solicitud_consistente = True
       /\ vals.firmas_completas = True
    THEN "APPROVED"
    ELSE IF alers # <<>> /\ \E i \in 1..Len(alers) : EsCritica(alers[i])
    THEN "REJECTED_RED_FLAG"
    ELSE IF alers # <<>> THEN "NEEDS_REVIEW"
    ELSE "INCOMPLETE"

\* the verdict strings of generar_reporte; it has none for REJECTED_RED_FLAG
EnCodigo(v) ==
    CASE v = "APPROVED" -> "APROBADO"
      [] v = "NEEDS_REVIEW" -> "REVISIÓN REQUERIDA"
      [] v = "INCOMPLETE" -> "INCOMPLETO"
      [] OTHER -> "-"

\* C16: the verdict of the report is the one the four-row table gives for the
\* validations and alerts: APPROVED, else REJECTED_RED_FLAG when an alert is
\* critical, else NEEDS_REVIEW when there are alerts, else INCOMPLETE.
C16_Tabla ==
    fase = "reportado"
    => reporte.resumen_validacion = EnCodigo(Veredicto(validaciones, alertas))

(***************************************************************************)
(* detectar_tipo_documento.  TIPOS_DOCUMENTO in its declared order, with   *)
(* the fields the detection reads.                                         *)
(***************************************************************************)
TIPOS_DOCUMENTO ==
    <<
      [tipo |-> "AUTORIZACION_SEGUROS",
       identificadores |->
         <<<<"A", "u", "t", "o", "r", "i", "z", "a", "c", "i", "ó", "n", " ", "p", "a", "r", "a", " ", "r", "e", "f", "e", "r", "i", "r", " ", "l", "o", "s", " ", "s", "e", "g", "u", "r", "o", "s">>,
           <<"A", "u", "t", "o", "r", "i", "z", "a", "c", "i", "ó", "n", " ", "p", "a", "r", "a", " ", "r", "e", "f", "e", "r", "i", "r">>>>,
       identificadores_negativos |->
         <<>>],
      [tipo |-> "DIVULGACIONES_TITULO",
       identificadores |->
         <<<<"D", "i", "v", "u", "l", "g", "a", "c", "i", "o", "n", "e", "s", " ", "S", "e", "g", "u", "r", "o", " ", "d", "e", " ", "T", "í", "t", "u", "l", "o">>,
           <<"D", "i", "v", "u", "l", "g", "a", "c", "i", "o", "n", "e", "s", " ", "S", "e", "g", "u", "r", "o", " ", "d", "e", " ", "T", "i", "t", "u", "l", "o">>>>,
       identificadores_negativos |->
         <<>>],
      [tipo |-> "DIVULGACIONES_PRODUCTOS",
       identificadores |->
         <<<<"D", "i", "v", "u", "l", "g", "a", "c", "i", "o", "n", "e", "s", " ", "r", "e", "l", "a", "c", "i", "o", "n", "a", "d", "a", "s", " ", "a", " ", "l", "o", "s", " ", "p", "r", "o", "d", "u", "c", "t", "o", "s", " ", "d", "e", " ", "s", "e", "g", "u", "r", "o">>>>,
       identificadores_negativos |->
         <<>>],
      [tipo |-> "CARTA_SOLICITUD",
       identificadores |->
         <<<<"S", "o", "l", "i", "c", "i", "t", "u", "d", " ", "d", "e", " ", "C", "o", "t", "i", "z", "a", "c", "i", "ó", "n", " ", "P", "ó", "l", "i", "z", "a", " ", "d", "e", " ", "T", "í", "t", "u", "l", "o">>,
           <<"S", "o", "l", "i", "c", "i", "t", "u", "d", " ", "d", "e", " ", "C", "o", "t", "i", "z", "a", "c", "i", "ó", "n">>,
           <<"p", "o", "p", "u", "l", "a", "r", "M", "o", "r", "t", "g", "a", "g", "e", ".", "c", "o", "m">>>>,
       identificadores_negativos |->
         <<<<"A", "u", "t", "o", "r", "i", "z", "a", "c", "i", "ó", "n", " ", "p", "a", "r", "a", " ", "r", "e", "f", "e", "r", "i", "r">>,
           <<"D", "i", "v", "u", "l", "g", "a", "c", "i", "o", "n", "e", "s">>>>],
      [tipo |-> "ESTUDIO_TITULO",
       identificadores |->
         <<<<"E", "S", "T", "U", "D", "I", "O">>,
           <<"C", "a", "p", "i", "t", "a", "l", " ", "T", "i", "t", "l", "e">>,
           <<"C", "A", "P", "I", "T", "A", "L", " ", "T", "I", "T", "L", "E">>>>,
       identificadores_negativos |->
         <<<<"D", "i", "v", "u", "l", "g", "a", "c", "i", "o", "n", "e", "s", " ", "S", "e", "g", "u", "r", "o", " ", "d", "e", " ", "T", "í", "t", "u", "l", "o">>,
           <<"p", "o", "p", "u", "l", "a", "r", "M", "o", "r", "t", "g", "a", "g", "e", ".", "c", "o", "m">>,
           <<"C", "o", "n", "t", "i", "n", "u", "a", "c", "i", "ó", "n">>>>],
      [tipo |-> "ESTUDIO_TITULO_CONTINUACION",
       identificadores |->
         <<<<"C", "o", "n", "t", "i", "n", "u", "a", "c", "i", "ó", "n">>,
           <<"C", "o", "n", "t", "i", "n", "u", "a", "c", "i", "o", "n">>>>,
       identificadores_negativos |->
         <<<<"A", "u", "t", "o", "r", "i", "z", "a", "c", "i", "ó", "n">>,
           <<"D", "i", "v", "u", "l", "g", "a", "c", "i", "o", "n", "e", "s">>>>]
    >>

\* None where the name of a type is expected
NingunTipo == "None"

\* any(ident.upper() in texto_upper for ident in identificadores)
tiene_alguno(texto_upper, identificadores) ==
    \E i \in 1..Len(identificadores) : Contiene(texto_upper, Upper(identificadores[i]))

\* a detection that ignores the negative identifiers
tiene_negativo_nunca(texto_upper, config) == FALSE

tiene_negativo(texto_upper, config) ==
    tiene_alguno(texto_upper, config.identificadores_negativos)

tiene_positivo(texto_upper, config) == tiene_alguno(texto_upper, config.identificadores)

\* for tipo, config in TIPOS_DOCUMENTO.items(), from the k-th item on
RECURSIVE detectar_desde(_, _)
detectar_desde(texto_upper, k) ==
    IF k > Len(TIPOS_DOCUMENTO) THEN NingunTipo
    ELSE IF /\ tiene_positivo(texto_upper, TIPOS_DOCUMENTO[k])
            /\ ~tiene_negativo(texto_upper, TIPOS_DOCUMENTO[k])
    THEN TIPOS_DOCUMENTO[k].tipo
    ELSE detectar_desde(texto_upper, k + 1)

detectar_tipo_documento(txt) == detectar_desde(Upper(txt), 1)

(***************************************************************************)
(* The page texts detectar_tipo_documento is applied to: up to MaxFrases   *)
(* of the phrases below, one per line.                                     *)
(***************************************************************************)
MaxFrases == 2

FraseAutorizacion == <<"A", "u", "t", "o", "r", "i", "z", "a", "c", "i", "ó", "n", " ", "p", "a", "r", "a", " ", "r", "e", "f", "e", "r", "i", "r", " ", "l", "o", "s", " ", "s", "e", "g", "u", "r", "o", "s">>
FraseSolicitud == <<"S", "o", "l", "i", "c", "i", "t", "u", "d", " ", "d", "e", " ", "C", "o", "t", "i", "z", "a", "c", "i", "ó", "n">>
FraseDivTitulo == <<"D", "i", "v", "u", "l", "g", "a", "c", "i", "o", "n", "e", "s", " ", "S", "e", "g", "u", "r", "o", " ", "d", "e", " ", "T", "í", "t", "u", "l", "o">>
FraseDivProductos == <<"d", "i", "v", "u", "l", "g", "a", "c", "i", "o", "n", "e", "s", " ", "r", "e", "l", "a", "c", "i", "o", "n", "a", "d", "a", "s", " ", "a", " ", "l", "o", "s", " ", "p", "r", "o", "d", "u", "c", "t", "o", "s", " ", "d", "e", " ", "s", "e", "g", "u", "r", "o">>
FraseEstudio == <<"E", "S", "T", "U", "D", "I", "O", " ", "d", "e", " ", "t", "i", "t", "u", "l", "o">>
FraseContinuacion == <<"c", "o", "n", "t", "i", "n", "u", "a", "c", "i", "ó", "n">>
FrasePopular == <<"w", "w", "w", ".", "p", "o", "p", "u", "l", "a", "r", "M", "o", "r", "t", "g", "a", "g", "e", ".", "c", "o", "m">>
FrasePalabraAutorizacion == <<"A", "u", "t", "o", "r", "i", "z", "a", "c", "i", "ó", "n", " ", "d", "e", "l", " ", "c", "l", "i", "e", "n", "t", "e">>
FrasePalabraDivulgaciones == <<"D", "i", "v", "u", "l", "g", "a", "c", "i", "o", "n", "e", "s">>
FraseOtra == <<"h", "o", "l", "a">>
Frases == {FraseAutorizacion, FraseSolicitud, FraseDivTitulo, FraseDivProductos,
           FraseEstudio, FraseContinuacion, FrasePopular, FrasePalabraAutorizacion,
           FrasePalabraDivulgaciones, FraseOtra}

\* "\n".join(lineas)
RECURSIVE Unir(_)
Unir(lineas) ==
    IF lineas = <<>> THEN <<>>
    ELSE IF Len(lineas) = 1 THEN lineas[1]
    ELSE lineas[1] \o <<"\n">> \o Unir(Tail(lineas))

Textos == {Unir(fs) : fs \in UNION {[1..n -> Frases] : n \in 0..MaxFrases}}

InitDetectar ==
    /\ InitPipeline
    /\ fase = "texto"
    /\ texto \in Textos
    /\ tipo = Nada
    /\ SinValidar /\ SinPaquete /\ SinAgrupar /\ SinFirma

\* tipo = detectar_tipo_documento(texto)
Detectar ==
    /\ fase = "texto"
    /\ tipo' = detectar_tipo_documento(texto)
    /\ fase' = "tipo"
    /\ UNCHANGED <<pipeline, documentos, validaciones, alertas, reporte, texto, doc,
                   texto_continuaciones_estudio, referencia, listado, timestamp, agrupado,
                   page, OPENCV_DISPONIBLE, firma_detectada>>

NextDetectar == Detectar

SpecDetectar == InitDetectar /\ [][NextDetectar]_vars

\* ident is contained in txt, case-insensitively
ContieneCI(txt, ident) == Contiene(Upper(txt), Upper(ident))

\* the k-th type of the registry has a positive and no negative identifier in txt
Califica(k, txt) ==
    /\ \E i \in 1..Len(TIPOS_DOCUMENTO[k].identificadores) :
         ContieneCI(txt, TIPOS_DOCUMENTO[k].identificadores[i])
    /\ \A i \in 1..Len(TIPOS_DOCUMENTO[k].identificadores_negativos) :
         ~ContieneCI(txt, TIPOS_DOCUMENTO[k].identificadores_negativos[i])

\* C17: the type returned is the first of the registry, in declared order, that has
\* a positive and no negative identifier in the page text, and None is returned
\* exactly when no type has.
C17_Primero ==
    fase = "tipo" =>
       /\ \A k \in 1..Len(TIPOS_DOCUMENTO) :
            (tipo = TIPOS_DOCUMENTO[k].tipo)
            <=> (Califica(k, texto) /\ \A j \in 1..(k - 1) : ~Califica(j, texto))
       /\ (tipo = NingunTipo) <=> (\A k \in 1..Len(TIPOS_DOCUMENTO) : ~Califica(k, texto))

\* a page with positive identifiers of the first and of the second type
C17_Visto ==
    /\ fase = "tipo"
    /\ Califica(1, texto) /\ Califica(2, texto)
    /\ tipo = "AUTORIZACION_SEGUROS"

(***************************************************************************)
(* extraer_ultima_fecha: the last match of the pattern                     *)
(*   \d{1,2}\s+de\s+(?:enero|...|diciembre)\s+de\s+\d{4}   (ignoring case) *)
(* and, if there is none, the last match of  \d{1,2}/\d{1,2}/\d{4}.        *)
(* The operators below give the index after a match that starts at i, and  *)
(* 0 when there is no match.                                               *)
(***************************************************************************)
Meses ==
    <<<<"e", "n", "e", "r", "o">>,
      <<"f", "e", "b", "r", "e", "r", "o">>,
      <<"m", "a", "r", "z", "o">>,
      <<"a", "b", "r", "i", "l">>,
      <<"m", "a", "y", "o">>,
      <<"j", "u", "n", "i", "o">>,
      <<"j", "u", "l", "i", "o">>,
      <<"a", "g", "o", "s", "t", "o">>,
      <<"s", "e", "p", "t", "i", "e", "m", "b", "r", "e">>,
      <<"o", "c", "t", "u", "b", "r", "e">>,
      <<"n", "o", "v", "i", "e", "m", "b", "r", "e">>,
      <<"d", "i", "c", "i", "e", "m", "b", "r", "e">>>>

EsDigito(s, i) == i >= 1 /\ i <= Len(s) /\ s[i] \in Digitos
EsBlanco(s, i) == i >= 1 /\ i <= Len(s) /\ s[i] \in Blancos

\* \s+
RECURSIVE TrasBlancos(_, _)
TrasBlancos(s, i) ==
    IF ~EsBlanco(s, i) THEN 0
    ELSE IF EsBlanco(s, i + 1) THEN TrasBlancos(s, i + 1)
    ELSE i + 1

\* a literal, ignoring case
TrasLiteral(s, i, lit) ==
    IF i >= 1 /\ i + Len(lit) - 1 <= Len(s) /\ Upper(SubSeq(s, i, i + Len(lit) - 1)) = Upper(lit)
    THEN i + Len(lit)
    ELSE 0

\* \d{1,2} followed by what sigue matches
TrasDiaOMes(s, i, sigue) ==
    IF ~EsDigito(s, i) THEN 0
    ELSE IF EsDigito(s, i + 1) /\ i + 2 <= Len(s) /\ s[i + 2] \in sigue THEN i + 2
    ELSE IF i + 1 <= Len(s) /\ s[i + 1] \in sigue THEN i + 1
    ELSE 0

\* \d{4}
TrasAnio(s, i) ==
    IF i >= 1 /\ \A j \in i..(i + 3) : EsDigito(s, j) THEN i + 4 ELSE 0

\* (?:enero|febrero|...|diciembre)
TrasMes(s, i) ==
    IF \E m \in 1..Len(Meses) : TrasLiteral(s, i, Meses[m]) # 0
    THEN TrasLiteral(s, i, Meses[CHOOSE m \in 1..Len(Meses) : TrasLiteral(s, i, Meses[m]) # 0])
    ELSE 0

\* the positions reached from the positions desde by \s+ and then the literal lit
TrasBlancosYLiteral(s, desde, lit) ==
    {TrasLiteral(s, b, lit) : b \in {TrasBlancos(s, a) : a \in desde} \ {0}} \ {0}

\* index after a match of the pattern starting at i, 0 if there is none
FinFecha(patron, s, i) ==
    LET fines ==
          IF patron = "larga"
          THEN LET dia == {TrasDiaOMes(s, i, Blancos)} \ {0}
                   de1 == TrasBlancosYLiteral(s, dia, <<"d", "e">>)
                   nmes == {TrasMes(s, b) : b \in {TrasBlancos(s, a) : a \in de1} \ {0}} \ {0}
                   de2 == TrasBlancosYLiteral(s, nmes, <<"d", "e">>)
               IN  {TrasAnio(s, b) : b \in {TrasBlancos(s, a) : a \in de2} \ {0}} \ {0}
          ELSE LET dia == {TrasDiaOMes(s, i, {"/"})} \ {0}
                   nmes == {TrasDiaOMes(s, a + 1, {"/"}) : a \in dia} \ {0}
               IN  {TrasAnio(s, a + 1) : a \in nmes} \ {0}
    IN  IF fines = {} THEN 0 ELSE CHOOSE f \in fines : TRUE

\* re.findall(patron, s)[-1] over s[i..], ultima if there is no match: the scan
\* goes to the first position from i where a match starts and resumes after it
RECURSIVE UltimaFecha(_, _, _, _)
UltimaFecha(patron, s, i, ultima) ==
    LET inicios == {j \in i..Len(s) : EsDigito(s, j) /\ FinFecha(patron, s, j) # 0}
    IN  IF inicios = {} THEN ultima
        ELSE LET j == CHOOSE x \in inicios : \A y \in inicios : x <= y
                 fin == FinFecha(patron, s, j)
             IN  UltimaFecha(patron, s, fin, SubSeq(s, j, fin - 1))

extraer_ultima_fecha(txt) ==
    LET larga == UltimaFecha("larga", txt, 1, None)
    IN  IF larga # None THEN larga ELSE UltimaFecha("numerica", txt, 1, None)

\* texto + "\n" + _texto_continuaciones_estudio
extraer_ultima_fecha_estudio(txt, continuaciones) ==
    extraer_ultima_fecha(txt \o <<"\n">> \o continuaciones)

(***************************************************************************)
(* procesar_paquete.  Of the datos of a document the model keeps the       *)
(* combined text of its pages, which every pattern field is extracted      *)
(* from, and for ESTUDIO_TITULO the fecha_documento, the one field that    *)
(* reads the module global.                                                *)
(***************************************************************************)
\* The PDFs procesar_paquete is applied to, one after the other in the same
\* process: up to MaxPaginas of the pages below.
MaxPaginas == 3

PaginaEstudio == <<"E", "S", "T", "U", "D", "I", "O", " ", "d", "e", " ", "t", "i", "t", "u", "l", "o", "\n", "P", "O", "R", ":", " ", "5", " ", "d", "e", " ", "e", "n", "e", "r", "o", " ", "d", "e", " ", "2", "0", "2", "4">>
PaginaContinuacion == <<"C", "o", "n", "t", "i", "n", "u", "a", "c", "i", "ó", "n", "\n", "7", " ", "d", "e", " ", "M", "a", "r", "z", "o", " ", "d", "e", " ", "2", "0", "2", "4">>
Paginas == {PaginaEstudio, PaginaContinuacion}
Paquetes == UNION {[1..n -> Paginas] : n \in 1..MaxPaginas}

\* The pages of the PDFs whose entries are examined: the two above, a page of each
\* of three other types and a page of no type.
Hojas == Paginas \cup {FraseAutorizacion, FraseDivTitulo, FraseSolicitud, FraseOtra}

\* tipo = detectar_tipo_documento(texto) of every page, computed once
TipoDe == [pg \in Hojas |-> detectar_tipo_documento(pg)]
tipo_de_pagina(pg) == TipoDe[pg]

\* a procesar_paquete that does not reset the global
reset_continuaciones_omitido(anterior) == anterior

\* _texto_continuaciones_estudio = ""
reset_continuaciones(anterior) == <<>>

\* the global after the first pass over the pages i.. of the PDF
RECURSIVE primera_pasada(_, _, _)
primera_pasada(paginas, i, continuaciones) ==
    IF i > Len(paginas) THEN continuaciones
    ELSE primera_pasada(paginas, i + 1,
             IF tipo_de_pagina(paginas[i]) = "ESTUDIO_TITULO_CONTINUACION"
             THEN continuaciones \o <<"\n">> \o paginas[i]
             ELSE continuaciones)

\* paginas_por_tipo[t]: the 0-based indexes of the pages classified as t
paginas_por_tipo(paginas, t) ==
    SelectSeq([i \in 1..Len(paginas) |-> i - 1],
              LAMBDA p : tipo_de_pagina(paginas[p + 1]) = t)

\* a first pass that files the continuation pages under a key of their own
tipos_clasificados_con_continuacion(paginas) ==
    {tipo_de_pagina(paginas[i]) : i \in 1..Len(paginas)} \ {NingunTipo}

\* the keys of paginas_por_tipo
tipos_clasificados(paginas) ==
    {tipo_de_pagina(paginas[i]) : i \in 1..Len(paginas)}
        \ {NingunTipo, "ESTUDIO_TITULO_CONTINUACION"}

extraer_campos_por_tipo(texto_combinado, t, continuaciones) ==
    IF t = "ESTUDIO_TITULO"
    THEN [texto |-> texto_combinado,
          fecha_documento |-> extraer_ultima_fecha_estudio(texto_combinado, continuaciones)]
    ELSE [texto |-> texto_combinado]

\* documentos_encontrados after the second pass
segunda_pasada(paginas, continuaciones) ==
    [t \in tipos_clasificados(paginas) |->
        LET pags == paginas_por_tipo(paginas, t)
        IN  [paginas |-> [k \in 1..Len(pags) |-> pags[k] + 1],
             datos |-> extraer_campos_por_tipo(
                           Unir([k \in 1..Len(pags) |-> paginas[pags[k] + 1]]),
                           t, continuaciones)]]

TieneContinuacion(paginas) ==
    \E i \in 1..Len(paginas) :
        tipo_de_pagina(paginas[i]) = "ESTUDIO_TITULO_CONTINUACION"

InitPaquete ==
    /\ InitPipeline
    /\ fase = "cerrado"
    /\ doc = <<>>
    /\ texto_continuaciones_estudio = <<>>
    /\ documentos = Vacio
    /\ referencia = [doc |-> <<>>, documentos |-> Vacio, despues |-> FALSE, otra_vez |-> FALSE]
    /\ validaciones = Nada /\ alertas = Nada /\ reporte = Nada
    /\ SinDetectar /\ SinAgrupar /\ SinFirma

\* documentos, num_paginas = procesar_paquete(ruta_pdf_ocr) for the PDF with pages p
ProcesarPaquete(p) ==
    /\ fase \in {"cerrado", "procesado"}
    /\ doc' = p
    /\ LET continuaciones == primera_pasada(p, 1,
                                 reset_continuaciones(texto_continuaciones_estudio))
       IN  /\ texto_continuaciones_estudio' = continuaciones
           /\ documentos' = segunda_pasada(p, continuaciones)
    /\ referencia' =
         IF referencia.doc = <<>>
         THEN [doc |-> p, documentos |-> documentos', despues |-> FALSE, otra_vez |-> FALSE]
         ELSE [referencia EXCEPT
                 !.despues = @ \/ TieneContinuacion(p),
                 !.otra_vez = @ \/ (referencia.despues /\ p = referencia.doc)]
    /\ fase' = "procesado"
    /\ UNCHANGED <<pipeline, validaciones, alertas, reporte, texto, tipo,
                   listado, timestamp, agrupado, page, OPENCV_DISPONIBLE, firma_detectada>>

NextPaquete == \E p \in Paquetes : ProcesarPaquete(p)

SpecPaquete == InitPaquete /\ [][NextPaquete]_vars

\* C18: whatever packages were processed before, procesar_paquete returns for a
\* package the documents it returned for it the first time, and after a call the
\* continuation text holds no page of another package.
C18_SinFuga ==
    fase = "procesado" =>
       /\ doc = referencia.doc => documentos = referencia.documentos
       /\ \A pg \in Paginas :
            Contiene(texto_continuaciones_estudio, pg) => pg \in Conjunto(doc)

\* the first package, with a title study, is processed again after a package with
\* a continuation page
C18_Visto ==
    /\ fase = "procesado"
    /\ referencia.otra_vez
    /\ doc = referencia.doc
    /\ "ESTUDIO_TITULO" \in DOMAIN documentos
    /\ ~TieneContinuacion(doc)

(***************************************************************************)
(* procesar_paquete applied once to a PDF of up to MaxHojas pages, or to   *)
(* the six-page PDF with pages 1, 4, 5, 6 of four types and pages 2, 3 of  *)
(* none.                                                                   *)
(***************************************************************************)
MaxHojas == 3

PaqueteEjemplo ==
    <<FraseAutorizacion, FraseOtra, FraseOtra, FraseDivTitulo, FraseSolicitud, PaginaEstudio>>
PaquetesDeHojas == UNION {[1..n -> Hojas] : n \in 1..MaxHojas} \cup {PaqueteEjemplo}

NextEntradas == \E p \in PaquetesDeHojas : fase = "cerrado" /\ ProcesarPaquete(p)

SpecEntradas == InitPaquete /\ [][NextEntradas]_vars

\* the type the registry gives a page: the first that qualifies, NingunTipo if none
TipoSegunRegistro(pg) ==
    IF \E k \in 1..Len(TIPOS_DOCUMENTO) : Califica(k, pg)
    THEN TIPOS_DOCUMENTO[CHOOSE k \in 1..Len(TIPOS_DOCUMENTO) :
                            Califica(k, pg) /\ \A j \in 1..(k - 1) : ~Califica(j, pg)].tipo
    ELSE NingunTipo

\* the 1-based numbers of the pages of the open PDF that the registry gives type t
PaginasDe(t) == {i \in 1..Len(doc) : TipoSegunRegistro(doc[i]) = t}

EnOrden(s) == \A i, j \in 1..Len(s) : i < j => s[i] < s[j]

\* C22: procesar_paquete returns one entry per non-continuation type that some page
\* was classified as; the page list of an entry is the 1-based pages of that type,
\* so unclassified and continuation pages are in no list and make no key; the
\* combined text of an entry is the text of its own pages, and the continuation
\* text is read only by fecha_documento of ESTUDIO_TITULO.  The six-page PDF with
\* pages 2 and 3 unclassified gives four keys for its six pages.
C22_Entradas ==
    fase = "procesado" =>
       /\ DOMAIN documentos =
             {t \in {TipoSegunRegistro(doc[i]) : i \in 1..Len(doc)} :
                 t \notin {NingunTipo, "ESTUDIO_TITULO_CONTINUACION"}}
       /\ \A t \in DOMAIN documentos :
             /\ Conjunto(documentos[t].paginas) = PaginasDe(t)
             /\ EnOrden(documentos[t].paginas)
             /\ documentos[t].datos.texto =
                   Unir([k \in 1..Len(documentos[t].paginas) |-> doc[documentos[t].paginas[k]]])
             /\ "fecha_documento" \in DOMAIN documentos[t].datos <=> t = "ESTUDIO_TITULO"
       /\ doc = PaqueteEjemplo => Cardinality(DOMAIN documentos) = 4 /\ Len(doc) = 6

\* the six-page PDF of the example was processed
C22_Visto ==
    /\ fase = "procesado"
    /\ doc = PaqueteEjemplo
    /\ DOMAIN documentos = {"AUTORIZACION_SEGUROS", "DIVULGACIONES_TITULO", "CARTA_SOLICITUD",
                            "ESTUDIO_TITULO"}
    /\ documentos["DIVULGACIONES_TITULO"].paginas = <<4>>

(***************************************************************************)
(* agrupar_pdfs_por_base on its own: the sorted listing of an inbox and    *)
(* the instant at which the key of the files without suffix is stamped.    *)
(***************************************************************************)
B1 == <<"B", " ", "(", "2", ")", "-", "1", "-", "1", ".", "p", "d", "f">>
DIV == <<"D", "I", "V", ".", "p", "d", "f">>
\* a page file whose base is the key stamped at instant 0
P0 == <<"P", "A", "Q", "U", "E", "T", "E", "_", "0", "-", "1", "-", "1", ".", "p", "d", "f">>
\* files without suffix of the other rows of the document-type table
ET == <<"E", "T", ".", "p", "d", "f">>
DIV1 == <<"D", "I", "V", "(", "1", ")", ".", "p", "d", "f">>
DIV7 == <<"D", "I", "V", "(", "7", ")", ".", "p", "d", "f">>
OTRO == <<"X", ".", "p", "d", "f">>
ArchivosInbox == Archivos \cup {B1, DIV, P0, ET, DIV1, DIV7, OTRO}
Listados == {Listar(S) : S \in SUBSET ArchivosInbox}

InitAgrupar ==
    /\ InitPipeline
    /\ fase = "listado"
    /\ listado \in Listados
    /\ timestamp \in 0..MaxReloj
    /\ agrupado = <<>>
    /\ SinValidar /\ SinDetectar /\ SinPaquete /\ SinFirma

Agrupar ==
    /\ fase = "listado"
    /\ agrupado' = agrupar_pdfs_por_base(listado, Marca(timestamp))
    /\ fase' = "agrupado"
    /\ UNCHANGED <<pipeline, documentos, validaciones, alertas, reporte, texto, tipo,
                   doc, texto_continuaciones_estudio, referencia, listado, timestamp,
                   page, OPENCV_DISPONIBLE, firma_detectada>>

NextAgrupar == Agrupar

SpecAgrupar == InitAgrupar /\ [][NextAgrupar]_vars

\* number of places a file takes in the lists of the groups
Apariciones(grupos, pdf) ==
    Cardinality({par \in UNION {{<<i, j>> : j \in 1..Len(grupos[i].lista)} : i \in 1..Len(grupos)} :
                    grupos[par[1]].lista[par[2]] = pdf})

\* C19: agrupar_pdfs_por_base partitions the listing: every file of it is a member
\* of exactly one returned group, whatever the names, names that begin with
\* PAQUETE_ included.
C19_Particion ==
    fase = "agrupado" =>
       \A pdf \in Conjunto(listado) : Apariciones(agrupado, pdf) = 1

(***************************************************************************)
(* The order of the members of a group.                                    *)
(***************************************************************************)
\* the file name holds one of the words of the document-type table
TipoConocido(pdf) ==
    LET nombre == Upper(pdf)
    IN  \E palabra \in {<<"C", "V">>, <<"C", "A", "R", "T", "A">>,
                        <<"C", "O", "T", "I", "Z", "A", "C", "I", "O", "N">>,
                        <<"E", "T">>, <<"E", "S", "T", "U", "D", "I", "O">>,
                        <<"P", "A", "G">>,
                        <<"C", "O", "N", "T", "I", "N", "U", "A", "C", "I", "O", "N">>,
                        <<"D", "I", "V">>} : Contiene(nombre, palabra)

\* C25: the members of a group of files with the -X-Y.pdf suffix are in ascending
\* order of X; the members of the group of files without it are in the order of
\* the document-type table (CV, then ET, then page continuations, then DIV,
\* DIV(1), DIV(2), ... by number, the file name breaking ties) and every file of
\* no known type comes after every file of a known type.
C25_Orden ==
    fase = "agrupado" =>
       \A g \in 1..Len(agrupado) :
          LET l == agrupado[g].lista
          IN  \A i, j \in 1..Len(l) :
                 i < j =>
                    IF \A k \in 1..Len(l) : ~PatronPagina(l[k]).ok
                    THEN /\ ~(~TipoConocido(l[i]) /\ TipoConocido(l[j]))
                         /\ TipoConocido(l[i]) /\ TipoConocido(l[j]) =>
                               ~MenorOrden(extraer_orden_documento(l[j]),
                                           extraer_orden_documento(l[i]))
                    ELSE StartsWith(agrupado[g].clave, Prefijo)
                         \/ extraer_numero_pagina(l[i]) <= extraer_numero_pagina(l[j])

(***************************************************************************)
(* procesar_grupo returning "OK".                                          *)
(***************************************************************************)
LineaOK(k) == [archivo |-> k, etapa |-> "COMPLETO", resultado |-> "OK"]

ReportesEscritos == clave \in DOMAIN jsonf /\ clave \in DOMAIN txtf

\* C20: when procesar_grupo returns OK the JSON and TXT reports exist, the OCR PDF
\* is in the history folder, the merged and OCR PDFs are gone from the working
\* folder, the member files are gone from the inbox and exactly one OK line was
\* appended to the log; the reports are written before the PDF is archived and the
\* PDF is archived before the member files are deleted.
C20_RetornoOK ==
    /\ pc = "historial" => ReportesEscritos /\ Conjunto(lista) \subseteq inbox
    /\ pc = "limpieza" =>
          ReportesEscritos /\ clave \in historial /\ Conjunto(lista) \subseteq inbox
    /\ (pc = "retorno" /\ resultado = "OK") =>
          /\ ReportesEscritos
          /\ clave \in historial
          /\ clave \notin merged /\ clave \notin ocrpdf
          /\ Conjunto(lista) \cap inbox = {}
          /\ log = Append(previo.foto.log, LineaOK(clave))

(***************************************************************************)
(* The start of a run over output folders that hold the temp files an      *)
(* interrupted generar_json left behind: key -> instant of the last write. *)
(***************************************************************************)
MaxInstante == 3

ClavesTmp == {<<"A">>, ClavePaquete(Marca(0))}
TmpHasta(ahora) == UNION {[K -> 0..ahora] : K \in SUBSET ClavesTmp}

InitTmp ==
    /\ inbox = {}
    /\ errorDir = {} /\ merged = {} /\ ocrpdf = {} /\ historial = {}
    /\ jsonf = Vacio /\ txtf = Vacio
    /\ reloj \in 0..MaxInstante
    /\ tmpjson \in TmpHasta(reloj)
    /\ tmptxt \in TmpHasta(reloj)
    /\ log = <<>>
    /\ corrida = 0
    /\ pc = "idle" /\ pendientes = <<>> /\ nGrupos = 0
    /\ resultados = [OK |-> 0, ERROR |-> 0, IGNORADO |-> 0, LIMITE_ERRORES |-> 0]
    /\ clave = <<>> /\ lista = <<>> /\ resultado = "-"
    /\ fallo = "-"
    /\ fallidos = [f \in Archivos |-> 0]
    /\ llegadas = 0 /\ repetida = FALSE /\ nuevos = FALSE
    /\ previo = SinPrevio
    /\ cuarentena = {} /\ completos = {}
    /\ InitVerificador

NextTmp == Iniciar

SpecTmp == InitTmp /\ [][NextTmp]_vars

\* the temp file written at instant escrito is older than the threshold at ahora
Viejo(escrito, ahora) == Segundos(ahora) - Segundos(escrito) > MAX_EDAD_TMP

\* a temp folder after the start of a run: the old files gone, the others as they were
Limpia(antes, despues, ahora) ==
    /\ DOMAIN despues = {k \in DOMAIN antes : ~Viejo(antes[k], ahora)}
    /\ \A k \in DOMAIN despues : despues[k] = antes[k]

\* C21: the start of a run deletes every temp file older than MAX_EDAD_TMP from the
\* JSON output folder and from the TXT output folder, and leaves the younger ones.
C21_Huerfanos ==
    [][corrida' = corrida + 1 =>
          /\ Limpia(tmpjson, tmpjson', reloj)
          /\ Limpia(tmptxt, tmptxt', reloj)]_vars

\* C26: when procesar_grupo returns ERROR there is no final JSON report of the
\* group, whichever step failed, the second rename of generar_json and the move
\* to the history folder included.
C26_ErrorSinJson ==
    (pc = "retorno" /\ resultado = "ERROR") => clave \notin DOMAIN jsonf

\* C27: no package id ever has more than MAX_ERRORES ERROR lines in the log; a call
\* of procesar_grupo appends at most one ERROR line of its group, and none when
\* the group already had MAX_ERRORES of them.
C27_TopeErrores ==
    /\ \A i \in 1..Len(log) : NumErrores(log, log[i].archivo) <= MAX_ERRORES
    /\ pc = "retorno" =>
          LET antes == NumErrores(previo.foto.log, clave)
              ahora == NumErrores(log, clave)
          IN  /\ ahora <= antes + 1
              /\ antes >= MAX_ERRORES => ahora = antes

\* the ERROR line that takes a package to the limit has just been written
C27_Visto ==
    /\ pc = "retorno" /\ resultado = "ERROR"
    /\ NumErrores(previo.foto.log, clave) = MAX_ERRORES - 1
    /\ NumErrores(log, clave) = MAX_ERRORES

\* C28: the report built from the output of validar_consistencia has the verdict
\* APROBADO exactly when the list of alerts is empty; a validation that is False
\* or None comes with at least one alert, so the verdict is never INCOMPLETO.
C28_Veredicto ==
    fase = "reportado" =>
       /\ reporte.resumen_validacion = "APROBADO" <=> reporte.alertas = <<>>
       /\ (\E v \in {"nombre_consistente", "numero_solicitud_consistente", "firmas_completas"} :
              reporte.validaciones[v] \in {False, None}) => reporte.alertas # <<>>
       /\ reporte.resumen_validacion # "INCOMPLETO"

\* a report whose only failed validation is the indeterminate name
C28_Visto ==
    /\ fase = "reportado"
    /\ reporte.validaciones.nombre_consistente = None
    /\ reporte.validaciones.numero_solicitud_consistente = True
    /\ reporte.validaciones.firmas_completas = True
    /\ Len(reporte.alertas) = 1
    /\ reporte.resumen_validacion = "REVISIÓN REQUERIDA"

\* C30: procesar_grupo checks the existing report before the limit of errors: for
\* a package that has a final JSON and MAX_ERRORES or more ERROR lines it returns
\* IGNORADO, moves no member file to the error folder and logs no LIMITE line.
C30_JsonAntesQueLimite ==
    (/\ pc = "retorno"
     /\ clave \in DOMAIN previo.foto.jsonf
     /\ NumErrores(previo.foto.log, clave) >= MAX_ERRORES)
        => /\ resultado = "IGNORADO"
           /\ inbox = previo.foto.inbox /\ errorDir = previo.foto.errorDir
           /\ log = previo.foto.log

\* a package at the limit of errors whose report exists has been ignored
C30_Visto ==
    /\ pc = "retorno" /\ resultado = "IGNORADO"
    /\ clave \in DOMAIN jsonf
    /\ NumErrores(log, clave) >= MAX_ERRORES
    /\ Conjunto(lista) \subseteq inbox

(***************************************************************************)
(* detectar_firma.  The regular expressions are matched as re.search       *)
(* matches them: leftmost start, greedy and lazy repetitions as written.   *)
(* Of the value returned the model keeps tiene_firma and tipo_firma.       *)
(***************************************************************************)
PALABRAS_AREA_FIRMA ==
    <<<<"F", "i", "r", "m", "a", " ", "d", "e", "l", " ", "S", "o", "l", "i", "c", "i", "t", "a", "n", "t", "e">>,
      <<"F", "i", "r", "m", "a", " ", "d", "e", "l", " ", "C", "l", "i", "e", "n", "t", "e">>,
      <<"F", "i", "r", "m", "a", " ", "d", "e", "l", " ", "D", "e", "u", "d", "o", "r">>,
      <<"F", "i", "r", "m", "a", " ", "d", "e", "l", " ", "C", "o", "m", "p", "r", "a", "d", "o", "r">>,
      <<"F", "i", "r", "m", "a", " ", "d", "e", "l", " ", "V", "e", "n", "d", "e", "d", "o", "r">>,
      <<"F", "i", "r", "m", "a", " ", "d", "e", "l", " ", "P", "r", "o", "p", "i", "e", "t", "a", "r", "i", "o">>,
      <<"F", "i", "r", "m", "a", " ", "d", "e", "l", " ", "R", "e", "p", "r", "e", "s", "e", "n", "t", "a", "n", "t", "e">>,
      <<"F", "i", "r", "m", "a">>,
      <<"S", "i", "g", "n", "a", "t", "u", "r", "e">>,
      <<"S", "i", "g", "n", "e", "d">>,
      <<"F", "i", "r", "m", "a", "d", "o", " ", "p", "o", "r">>,
      <<"F", "i", "r", "m", "a", "d", "o">>>>

PALABRAS_CERTIFICACION ==
    <<<<"C", "e", "r", "t", "i", "f", "i", "c", "o">>,
      <<"C", "e", "r", "t", "i", "f", "y">>,
      <<"D", "e", "c", "l", "a", "r", "o">>,
      <<"D", "e", "c", "l", "a", "r", "e">>,
      <<"A", "c", "e", "p", "t", "o">>,
      <<"A", "c", "c", "e", "p", "t">>,
      <<"A", "u", "t", "o", "r", "i", "z", "o">>,
      <<"A", "u", "t", "h", "o", "r", "i", "z", "e">>,
      <<"C", "o", "n", "f", "i", "r", "m", "o">>,
      <<"C", "o", "n", "f", "i", "r", "m">>>>

\* palabras_excluir of the first and of the third pattern
ExcluirTimestamp ==
    {<<"D", "O", "C", "U", "M", "E", "N", "T", "O">>,
     <<"S", "E", "G", "U", "R", "O">>,
     <<"T", "I", "T", "U", "L", "O">>,
     <<"B", "A", "N", "C", "O">>,
     <<"N", "U", "M", "E", "R", "O">>,
     <<"F", "E", "C", "H", "A">>,
     <<"P", "A", "G", "I", "N", "A">>}
ExcluirCertificacion ==
    {<<"D", "O", "C", "U", "M", "E", "N", "T", "O">>,
     <<"S", "E", "G", "U", "R", "O">>,
     <<"T", "I", "T", "U", "L", "O">>,
     <<"B", "A", "N", "C", "O">>,
     <<"D", "I", "V", "U", "L", "G", "A", "C", "I", "O", "N", "E", "S">>,
     <<"P", "R", "E", "S", "E", "N", "T", "A", "D", "A", "S">>}

Letras == {Minusculas[i] : i \in 1..Len(Minusculas)} \cup {Mayusculas[i] : i \in 1..Len(Mayusculas)}
\* [A-Z] under re.IGNORECASE
LetrasAZ == {Minusculas[i] : i \in 1..26} \cup {Mayusculas[i] : i \in 1..26}
\* [A-Za-záéíóúñÁÉÍÓÚÑ\s]
EsDeNombre(s, i) == i >= 1 /\ i <= Len(s) /\ s[i] \in Letras \cup Blancos

\* re.sub(r'\s+', ' ', texto)
RECURSIVE Normalizar(_)
Normalizar(s) ==
    IF s = <<>> THEN <<>>
    ELSE IF Head(s) \in Blancos
         THEN IF Len(s) >= 2 /\ s[2] \in Blancos THEN Normalizar(Tail(s))
              ELSE <<" ">> \o Normalizar(Tail(s))
         ELSE <<Head(s)>> \o Normalizar(Tail(s))

\* str.strip()
RECURSIVE StripBlancos(_)
StripBlancos(s) ==
    IF s = <<>> THEN s
    ELSE IF Head(s) \in Blancos THEN StripBlancos(Tail(s))
    ELSE IF s[Len(s)] \in Blancos THEN StripBlancos(SubSeq(s, 1, Len(s) - 1))
    ELSE s

\* \s* : the first position from i that holds no whitespace
RECURSIVE SaltarBlancos(_, _)
SaltarBlancos(s, i) == IF EsBlanco(s, i) THEN SaltarBlancos(s, i + 1) ELSE i

\* a literal, case as written
HayLiteral(s, i, lit) ==
    i >= 1 /\ i + Len(lit) - 1 <= Len(s) /\ SubSeq(s, i, i + Len(lit) - 1) = lit

\* \d{1,2}/\d{1,2}/\d{4}\s+\d{1,2}:\d{2} matches at d (what may follow is optional)
HayTimestamp(s, d) ==
    /\ EsDigito(s, d)
    /\ \E f \in {FinFecha("numerica", s, d)} \ {0} :
         \E b \in {TrasBlancos(s, f)} \ {0} :
            \E h \in {TrasDiaOMes(s, b, {":"})} \ {0} :
               EsDigito(s, h + 1) /\ EsDigito(s, h + 2)

\* some word of the set is in the upper-cased name
TieneExcluida(nombre, excluir) == \E pal \in excluir : Contiene(Upper(nombre), pal)

Minimo(S) == CHOOSE x \in S : \A y \in S : x <= y
Maximo(S) == CHOOSE x \in S : \A y \in S : x >= y

\* PATRON 1: ([A-Z..][A-Za-z..\s]{3,40}?)\s*(date)\s+(time): the group starts at j
\* and takes k more characters
empieza_timestamp(s, j, k) ==
    /\ j + k <= Len(s)
    /\ s[j] \in Letras
    /\ \A i \in (j + 1)..(j + k) : EsDeNombre(s, i)
    /\ HayTimestamp(s, SaltarBlancos(s, j + k + 1))

\* match_ts found and its name accepted
patron_timestamp(texto_norm) ==
    LET inicios == {j \in 1..Len(texto_norm) :
                      \E k \in 3..40 : empieza_timestamp(texto_norm, j, k)}
    IN  /\ inicios # {}
        /\ LET j == Minimo(inicios)
               k == Minimo({x \in 3..40 : empieza_timestamp(texto_norm, j, x)})
               nombre == StripBlancos(SubSeq(texto_norm, j, j + k))
           IN  Len(nombre) > 5 /\ ~TieneExcluida(nombre, ExcluirTimestamp)

\* PATRON 2: a word of the two lists in the text and a timestamp in it
patron_ts_solo(texto_norm) ==
    /\ \E palabra \in Conjunto(PALABRAS_AREA_FIRMA) \cup Conjunto(PALABRAS_CERTIFICACION) :
          ContieneCI(texto_norm, palabra)
    /\ \E d \in 1..Len(texto_norm) : HayTimestamp(texto_norm, d)

\* (?:\d{1,2}/|\n|Firma|$) at i
Terminador(s, i) ==
    \/ i = Len(s) + 1
    \/ i >= 1 /\ i <= Len(s) /\ s[i] = "\n"
    \/ TrasLiteral(s, i, <<"F", "i", "r", "m", "a">>) # 0
    \/ TrasDiaOMes(s, i, {"/"}) # 0

\* after the word that ends before a: g characters of [^A-Z], then the group of 1 + k
sigue_certificacion(s, a, g, k) ==
    /\ a + g + k <= Len(s)
    /\ \A i \in a..(a + g - 1) : s[i] \notin LetrasAZ
    /\ s[a + g] \in Letras
    /\ \A i \in (a + g + 1)..(a + g + k) : EsDeNombre(s, i)
    /\ Terminador(s, a + g + k + 1)

\* PATRON 3 for one word: match_cert found and its name accepted
patron_cert(texto_norm, palabra) ==
    LET huecos(a) == {g \in 0..100 : \E k \in 5..40 : sigue_certificacion(texto_norm, a, g, k)}
        inicios == {q \in 1..Len(texto_norm) :
                      /\ TrasLiteral(texto_norm, q, palabra) # 0
                      /\ huecos(q + Len(palabra)) # {}}
    IN  /\ inicios # {}
        /\ LET a == Minimo(inicios) + Len(palabra)
               g == Maximo(huecos(a))
               k == Minimo({x \in 5..40 : sigue_certificacion(texto_norm, a, g, x)})
               nombre == StripBlancos(SubSeq(texto_norm, a + g, a + g + k))
           IN  Len(nombre) > 5 /\ ~TieneExcluida(nombre, ExcluirCertificacion)

\* PATRON 4: [xX]{1,3}\s*(?:Firma|Signature|___|---) or (?:Firma|Signature)\s*[:\s]*[xX]{1,3}
RECURSIVE SaltarDosPuntos(_, _)
SaltarDosPuntos(s, i) ==
    IF i <= Len(s) /\ s[i] \in Blancos \cup {":"} THEN SaltarDosPuntos(s, i + 1) ELSE i

EsEquis(s, i) == i >= 1 /\ i <= Len(s) /\ s[i] \in {"x", "X"}

marca_x(txt) ==
    \/ \E i \in 1..Len(txt) :
          /\ EsEquis(txt, i)
          /\ \E lit \in {<<"F", "i", "r", "m", "a">>, <<"S", "i", "g", "n", "a", "t", "u", "r", "e">>,
                          <<"_", "_", "_">>, <<"-", "-", "-">>} :
                HayLiteral(txt, SaltarBlancos(txt, i + 1), lit)
    \/ \E i \in 1..Len(txt) :
          \E lit \in {<<"F", "i", "r", "m", "a">>, <<"S", "i", "g", "n", "a", "t", "u", "r", "e">>} :
             /\ HayLiteral(txt, i, lit)
             /\ EsEquis(txt, SaltarDosPuntos(txt, i + Len(lit)))

\* the words of PALABRAS_AREA_FIRMA in the text, by position in the list
areas_en(txt) ==
    {i \in 1..Len(PALABRAS_AREA_FIRMA) : ContieneCI(txt, PALABRAS_AREA_FIRMA[i])}

Firma(presente, tipo_firma) == [presente |-> presente, tipo |-> tipo_firma]

\* PATRON 5 returned nothing
NoVista == Firma(None, Nada)

\* PATRON 5: the first area of the text whose analysis finds a signature with
\* confianza > 25, else the whole page with confianza > 50; NoVista if neither
RECURSIVE visual_en_areas(_, _, _)
visual_en_areas(pg, areas, i) ==
    IF i > Len(PALABRAS_AREA_FIRMA) THEN NoVista
    ELSE IF i \in areas /\ Truthy(pg.area[i].tiene) /\ pg.area[i].confianza > 40
         THEN Firma(True, "Firma Manuscrita")
    ELSE IF i \in areas /\ Truthy(pg.area[i].tiene) /\ pg.area[i].confianza > 25
         THEN Firma(True, "Posible Firma Manuscrita")
    ELSE visual_en_areas(pg, areas, i + 1)

visual(pg, areas) ==
    LET en_area == visual_en_areas(pg, areas, 1)
    IN  IF en_area # NoVista THEN en_area
        ELSE IF Truthy(pg.completa.tiene) /\ pg.completa.confianza > 50
             THEN Firma(True, "Posible Firma Manuscrita")
        ELSE NoVista

\* a PATRON 6 that reports an empty area when there is no visual analysis
sin_visual_vacia(hay_visual) == Firma(False, "Area de firma vacia")

\* PATRON 6, the text having an area of signature
area_sin_contenido(hay_visual) ==
    IF hay_visual THEN Firma(False, "Area de firma vacia")
    ELSE Firma(None, "Area de firma detectada")

detectar_firma(txt, pg, opencv) ==
    LET texto_norm == Normalizar(txt)
        hay_visual == ~pg.es_none /\ opencv
        areas == areas_en(txt)
        vista == IF hay_visual THEN visual(pg, areas) ELSE NoVista
    IN  IF patron_timestamp(texto_norm) THEN Firma(True, "Firma Electronica (Timestamp)")
        ELSE IF patron_ts_solo(texto_norm) THEN Firma(True, "Firma Electronica (Timestamp)")
        ELSE IF \E c \in 1..Len(PALABRAS_CERTIFICACION) :
                   patron_cert(texto_norm, PALABRAS_CERTIFICACION[c])
             THEN Firma(True, "Firma Electronica")
        ELSE IF marca_x(txt) THEN Firma(True, "Firma con Marca X")
        ELSE IF vista # NoVista THEN vista
        ELSE IF areas # {} THEN area_sin_contenido(hay_visual)
        ELSE Firma(False, "No encontrada")

(***************************************************************************)
(* The pages detectar_firma is applied to: a text, and no page or what the *)
(* two visual analyses return on the page (tiene_firma, confianza), the    *)
(* analysis of an area being one for the words "Firma del ..." and one for *)
(* the other words.                                                        *)
(***************************************************************************)
TextoTimestamp == <<"J", "U", "A", "N", " ", "P", "E", "R", "E", "Z", " ", "G", "A", "R", "C", "I", "A", " ", "1", "0", "/", "1", "0", "/", "2", "0", "2", "5", " ", "7", ":", "2", "9", " ", "A", "M", " ", "P", "D", "T">>
TextoTimestampSolo == <<"F", "i", "r", "m", "a", ":", " ", "1", "0", "/", "1", "0", "/", "2", "0", "2", "5", " ", "7", ":", "2", "9">>
TextoCertifico == <<"C", "e", "r", "t", "i", "f", "i", "c", "o", " ", "h", "a", "b", "e", "r", " ", "l", "e", "i", "d", "o", "\n", "J", "U", "A", "N", " ", "P", "E", "R", "E", "Z">>
TextoMarcaX == <<"X", " ", "F", "i", "r", "m", "a", " ", "d", "e", "l", " ", "S", "o", "l", "i", "c", "i", "t", "a", "n", "t", "e">>
TextoArea == <<"F", "i", "r", "m", "a", " ", "d", "e", "l", " ", "S", "o", "l", "i", "c", "i", "t", "a", "n", "t", "e">>
TextoAreaMinusculas == <<"v", "e", "r", " ", " ", "f", "i", "r", "m", "a", " ", "d", "e", "l", " ", "c", "l", "i", "e", "n", "t", "e", "\n">>
TextoSinArea == <<"P", "a", "g", "i", "n", "a", " ", "s", "i", "n", " ", "n", "a", "d", "a">>
TextoExcluido == <<"D", "O", "C", "U", "M", "E", "N", "T", "O", " ", "D", "E", "L", " ", "S", "E", "G", "U", "R", "O", " ", "1", "0", "/", "1", "0", "/", "2", "0", "2", "5", " ", "7", ":", "2", "9">>
TextoSignatureX == <<"S", "i", "g", "n", "a", "t", "u", "r", "e", ":", " ", "x">>
TextoDeclaro == <<"D", "e", "c", "l", "a", "r", "o", " ", "S", "E", "G", "U", "R", "O", " ", "D", "E", " ", "T", "I", "T", "U", "L", "O">>
TextoSigned == <<"S", "i", "g", "n", "e", "d">>
TextosDeFirma == {TextoTimestamp, TextoTimestampSolo, TextoCertifico, TextoMarcaX, TextoArea, TextoAreaMinusculas, TextoSinArea, TextoExcluido, TextoSignatureX, TextoDeclaro, TextoSigned}

ResultadosArea == {[tiene |-> None, confianza |-> 0], [tiene |-> False, confianza |-> 10],
                   [tiene |-> True, confianza |-> 31], [tiene |-> True, confianza |-> 45],
                   [tiene |-> True, confianza |-> 70]}
ResultadosPagina == {[tiene |-> None, confianza |-> 0], [tiene |-> False, confianza |-> 10],
                     [tiene |-> True, confianza |-> 60]}
PaginasVistas ==
    {[es_none |-> FALSE,
      area |-> [i \in 1..Len(PALABRAS_AREA_FIRMA) |-> IF i <= 7 THEN r1 ELSE r2],
      completa |-> rc] : r1 \in ResultadosArea, r2 \in ResultadosArea, rc \in ResultadosPagina}
\* page=None: there is nothing to analyse
PageNone ==
    [es_none |-> TRUE,
     area |-> [i \in 1..Len(PALABRAS_AREA_FIRMA) |-> [tiene |-> None, confianza |-> 0]],
     completa |-> [tiene |-> None, confianza |-> 0]]

InitFirma ==
    /\ InitPipeline
    /\ fase = "pagina"
    /\ texto \in TextosDeFirma
    /\ page \in {PageNone} \cup PaginasVistas
    /\ OPENCV_DISPONIBLE \in BOOLEAN
    /\ firma_detectada = Nada
    /\ tipo = Nada
    /\ SinValidar /\ SinPaquete /\ SinAgrupar

\* tiene_firma, tipo_firma, detalle = detectar_firma(texto, page=page)
DetectarFirma ==
    /\ fase = "pagina"
    /\ firma_detectada' = detectar_firma(texto, page, OPENCV_DISPONIBLE)
    /\ fase' = "firma"
    /\ UNCHANGED <<pipeline, documentos, validaciones, alertas, reporte, texto, tipo, doc,
                   texto_continuaciones_estudio, referencia, listado, timestamp, agrupado,
                   page, OPENCV_DISPONIBLE>>

NextFirma == DetectarFirma

SpecFirma == InitFirma /\ [][NextFirma]_vars

\* none of the patterns 1 to 4 finds a signature in the text
SinFirmaTextual(txt) ==
    LET texto_norm == Normalizar(txt)
    IN  /\ ~patron_timestamp(texto_norm)
        /\ ~patron_ts_solo(texto_norm)
        /\ \A c \in 1..Len(PALABRAS_CERTIFICACION) :
              ~patron_cert(texto_norm, PALABRAS_CERTIFICACION[c])
        /\ ~marca_x(txt)

\* C23: when no textual pattern matches, the text has a signature-area word and
\* there is no visual analysis (no page, or OpenCV missing), tiene_firma is None.
C23_Indeterminada ==
    (/\ fase = "firma"
     /\ SinFirmaTextual(texto)
     /\ areas_en(texto) # {}
     /\ (page.es_none \/ ~OPENCV_DISPONIBLE))
        => firma_detectada.presente = None

\* a page with ink above the signature line, examined without OpenCV
C23_Visto ==
    /\ fase = "firma"
    /\ texto = TextoArea
    /\ ~page.es_none /\ page.area[1].confianza = 70 /\ ~OPENCV_DISPONIBLE
    /\ firma_detectada = Firma(None, "Area de firma detectada")

\* C24: when no textual pattern matches and the text has no signature-area word,
\* the result is tiene_firma False with tipo 'No encontrada', with or without a
\* visual analysis.
C24_NoEncontrada ==
    (/\ fase = "firma"
     /\ SinFirmaTextual(texto)
     /\ areas_en(texto) = {})
        => firma_detectada = Firma(False, "No encontrada")

(***************************************************************************)
(* verificar_linea_rechazo.  The patterns are searched with re.IGNORECASE: *)
(* the model matches them on the upper-cased text and takes the captured   *)
(* group from the text itself.                                             *)
(***************************************************************************)
\* the words of the three patterns, joined by \s+ in the pattern
PalabrasRechazo ==
    <<<<<<"Q", "U", "E">>, <<"N", "O">>, <<"D", "E", "S", "E", "A">>, <<"Q", "U", "E">>, <<"P", "O", "P", "U", "L", "A", "R">>>>,
      <<<<"F", "A", "V", "O", "R">>, <<"I", "N", "D", "I", "C", "A", "R">>, <<"E", "L">>, <<"S", "E", "G", "U", "R", "O">>, <<"Q", "U", "E">>, <<"N", "O">>, <<"D", "E", "S", "E", "A">>>>,
      <<<<"I", "N", "S", "U", "R", "A", "N", "C", "E">>, <<"G", "E", "S", "T", "I", "O", "N", "E">>>>>>

Gestione == <<"G", "E", "S", "T", "I", "O", "N", "E">>

\* the words ws, one or more blanks between each two, matched at i:
\* the index after the last word, or 0
RECURSIVE TrasPalabras(_, _, _)
TrasPalabras(s, i, ws) ==
    IF ~HayLiteral(s, i, Head(ws)) THEN 0
    ELSE LET j == i + Len(Head(ws))
         IN  IF Len(ws) = 1 THEN j
             ELSE IF ~EsBlanco(s, j) THEN 0
             ELSE TrasPalabras(s, SaltarBlancos(s, j), Tail(ws))

\* pattern p matched at i up to the group: the index where [:\s]* starts, or 0
\*   1: the words, [^:]* (greedy) and gestione
\*   2: the words, [^:]* and ":"
\*   3: the words
TrasEtiqueta(s, p, i) ==
    LET j == TrasPalabras(s, i, PalabrasRechazo[p])
        sin_dos_puntos(a, b) == \A k \in a..b : s[k] # ":"
    IN  IF j = 0 THEN 0
        ELSE IF p = 1
        THEN LET gs == {g \in j..Len(s) : HayLiteral(s, g, Gestione) /\ sin_dos_puntos(j, g - 1)}
             IN  IF gs = {} THEN 0 ELSE Maximo(gs) + Len(Gestione)
        ELSE IF p = 2
        THEN LET cs == {c \in j..Len(s) : s[c] = ":"}
             IN  IF cs = {} THEN 0 ELSE Minimo(cs) + 1
        ELSE j

\* ([^\n]{0,100}) at k: the number of characters taken
RECURSIVE HastaFinDeLinea(_, _, _)
HastaFinDeLinea(s, k, n) ==
    IF n < 100 /\ k + n <= Len(s) /\ s[k + n] # "\n" THEN HastaFinDeLinea(s, k, n + 1) ELSE n

\* match.group(1) of re.search(patrones[p], texto, re.IGNORECASE), or None
grupo_rechazo(texto_pagina, p) ==
    LET s == Upper(texto_pagina)
        inicios == {i \in 1..Len(s) : TrasEtiqueta(s, p, i) # 0}
    IN  IF inicios = {} THEN None
        ELSE LET k == SaltarDosPuntos(s, TrasEtiqueta(s, p, Minimo(inicios)))
             IN  SubSeq(texto_pagina, k, k + HastaFinDeLinea(s, k, 0) - 1)

texto_formulario ==
    <<<<"f", "i", "r", "m", "a", " ", "d", "e", "l", " ", "s", "o", "l", "i", "c", "i", "t", "a", "n", "t", "e">>, <<"f", "i", "r", "m", "a", " ", "d", "e", "l", " ", "c", "o", "-", "s", "o", "l", "i", "c", "i", "t", "a", "n", "t", "e">>, <<"f", "i", "r", "m", "a">>, <<"s", "o", "l", "i", "c", "i", "t", "a", "n", "t", "e">>, <<"c", "o", "-", "s", "o", "l", "i", "c", "i", "t", "a", "n", "t", "e">>, <<"f", "e", "c", "h", "a">>, <<"m", "o", "r", "t", "g">>, <<"r", "e", "v">>>>

CorrectoEnBlanco == <<"C", "O", "R", "R", "E", "C", "T", "O", " ", "(", "E", "s", "t", "á", " ", "e", "n", " ", "b", "l", "a", "n", "c", "o", ")">>
NoLocalizado == <<"N", "O", " ", "L", "O", "C", "A", "L", "I", "Z", "A", "D", "O">>
AlertaContieneTexto == <<"A", "L", "E", "R", "T", "A", ":", " ", "C", "o", "n", "t", "i", "e", "n", "e", " ", "t", "e", "x", "t", "o", " ", "(", "'">>

\* the body of the loop for a pattern that matched with group contenido (stripped)
estado_rechazo(contenido) ==
    LET contenido_limpio == SelectSeq(contenido, LAMBDA c : c \notin Blancos \cup {"_", "-", ".", ":"})
        es_formulario == \E i \in 1..Len(texto_formulario) :
                            Contiene(Upper(contenido), Upper(texto_formulario[i]))
    IN  IF Len(contenido_limpio) < 3 \/ es_formulario
        THEN CorrectoEnBlanco
        ELSE AlertaContieneTexto \o SubSeq(contenido, 1, Minimo({50, Len(contenido)})) \o <<"'", ")">>

verificar_linea_rechazo(texto_pagina) ==
    LET hallados == {p \in 1..3 : grupo_rechazo(texto_pagina, p) # None}
    IN  IF hallados = {} THEN NoLocalizado
        ELSE estado_rechazo(StripBlancos(grupo_rechazo(texto_pagina, Minimo(hallados))))

(***************************************************************************)
(* The rejection line of AUTORIZACION_SEGUROS from the page to the         *)
(* verdict: extraer_campos_por_tipo stores verificar_linea_rechazo(texto)  *)
(* in datos["linea_rechazo"], then validar_consistencia and                *)
(* generar_reporte run on the package.                                     *)
(***************************************************************************)
RechazoVida == <<"I", "n", "s", "u", "r", "a", "n", "c", "e", " ", "g", "e", "s", "t", "i", "o", "n", "e", ":", " ", "V", "i", "d", "a", " ", "T", "o", "t", "a", "l">>
RechazoRaya == <<"I", "n", "s", "u", "r", "a", "n", "c", "e", " ", "g", "e", "s", "t", "i", "o", "n", "e", ":", " ", "_", "_", "_", "_", "\n", "F", "i", "r", "m", "a">>
RechazoFormulario == <<"I", "n", "s", "u", "r", "a", "n", "c", "e", " ", "g", "e", "s", "t", "i", "o", "n", "e", ":", "\n", "F", "i", "r", "m", "a", " ", "d", "e", "l", " ", "S", "o", "l", "i", "c", "i", "t", "a", "n", "t", "e">>
RechazoHogar == <<"q", "u", "e", " ", "n", "o", " ", "d", "e", "s", "e", "a", " ", "q", "u", "e", " ", "P", "o", "p", "u", "l", "a", "r", " ", "I", "n", "s", "u", "r", "a", "n", "c", "e", " ", "g", "e", "s", "t", "i", "o", "n", "e", ":", " ", "H", "o", "g", "a", "r">>
RechazoAuto == <<"F", "a", "v", "o", "r", " ", "i", "n", "d", "i", "c", "a", "r", " ", "e", "l", " ", "s", "e", "g", "u", "r", "o", " ", "q", "u", "e", " ", "n", "o", " ", "d", "e", "s", "e", "a", " ", "(", "s", "i", " ", "a", "l", "g", "u", "n", "o", ")", ":", " ", "A", "u", "t", "o">>
RechazoCorto == <<"i", "n", "s", "u", "r", "a", "n", "c", "e", " ", " ", "G", "E", "S", "T", "I", "O", "N", "E", " ", "a", "b">>
RechazoAusente == <<"A", "u", "t", "o", "r", "i", "z", "a", "c", "i", "o", "n", " ", "d", "e", " ", "s", "e", "g", "u", "r", "o", "s">>
TextosRechazo == {RechazoVida, RechazoRaya, RechazoFormulario, RechazoHogar, RechazoAuto, RechazoCorto, RechazoAusente}

\* packages with an AUTORIZACION_SEGUROS and, or not, a CARTA_SOLICITUD
PaquetesConAutorizacion ==
    {c @@ ("AUTORIZACION_SEGUROS" :>
              [datos |-> [nombre_solicitante |-> n, num_solicitud |-> m] @@ f]) :
        c \in {Vacio, ("CARTA_SOLICITUD" :> [datos |-> [nombre_solicitante |-> JuanPerez]])},
        n \in {None, JuanPerez}, m \in {None, Solicitud1}, f \in Firmas}

InitRechazo ==
    /\ InitPipeline
    /\ fase = "pagina"
    /\ texto \in TextosRechazo
    /\ documentos \in PaquetesConAutorizacion
    /\ validaciones = Nada /\ alertas = Nada /\ reporte = Nada
    /\ tipo = Nada /\ SinPaquete /\ SinAgrupar /\ SinFirma

\* datos[campo] = verificar_linea_rechazo(texto)
ExtraerRechazo ==
    /\ fase = "pagina"
    /\ documentos' =
          [documentos EXCEPT !["AUTORIZACION_SEGUROS"].datos =
              @ @@ [linea_rechazo |-> verificar_linea_rechazo(texto)]]
    /\ fase' = "documentos"
    /\ UNCHANGED <<pipeline, validaciones, alertas, reporte, fuera_de_validar>>

NextRechazo == ExtraerRechazo \/ ValidarConsistencia \/ Reportar

SpecRechazo == InitRechazo /\ [][NextRechazo]_vars

Alerta == <<"A", "L", "E", "R", "T", "A">>

\* C29: a package whose AUTORIZACION_SEGUROS has a linea_rechazo that starts with
\* ALERTA does not get the verdict APROBADO, and its report has an alert.
C29_Rechazo ==
    (/\ fase = "reportado"
     /\ "linea_rechazo" \in DOMAIN documentos["AUTORIZACION_SEGUROS"].datos
     /\ StartsWith(documentos["AUTORIZACION_SEGUROS"].datos.linea_rechazo, Alerta))
        => /\ reporte.resumen_validacion # "APROBADO"
           /\ reporte.alertas # <<>>

====
